---------------------------- MODULE Spec2Model ----------------------------
(***************************************************************************)
(* A model of MG-GA: the table model with its generalisations, the two     *)
(* scoring metrics and the k-anonymity verifier with their prefix-tree     *)
(* caches, and the MinGen search.                                          *)
(*                                                                         *)
(* Conventions.  A cell is a std::string; it is modelled as a record that  *)
(* keeps what the code reads of the string: whether it is "*", whether its *)
(* first character is '[' (a range "[lo-hi]"), its decimal value when it   *)
(* is a number, and its text otherwise.  A float is modelled as an exact   *)
(* rational [n, d] (d = 0 is INFINITY), so rounding is not modelled.       *)
(* Sequences are 1-based: row r / column c of the code is index r+1 / c+1. *)
(***************************************************************************)
EXTENDS Integers, Sequences, FiniteSets, TLC

(***************************************************************************)
(* Bounds of the model.                                                    *)
(***************************************************************************)
\* A table has at most MaxCols columns and MaxCells cells.
MaxCols == 2
MaxCells == 4
\* k is drawn from 1..MaxK.
MaxK == 3

(***************************************************************************)
(* Cells (std::string).                                                    *)
(***************************************************************************)
Star == [tag |-> "*", s |-> "*", lo |-> 0, hi |-> 0]
Str(x) == [tag |-> "s", s |-> x, lo |-> 0, hi |-> 0]
Num(n) == [tag |-> "i", s |-> "", lo |-> n, hi |-> n]
RangeStr(a, b) == [tag |-> "[", s |-> "", lo |-> a, hi |-> b]
EmptyStr == Str("")

\* value[0] == '['
IsBracket(cell) == cell.tag = "["
\* std::stoi / std::atoi of a cell of an integer column; atoi of a
\* non-number is 0
atoi(cell) == IF cell.tag = "i" THEN cell.lo ELSE 0

(***************************************************************************)
(* Sequence helpers.                                                       *)
(***************************************************************************)
Range_(f) == {f[i] : i \in DOMAIN f}
SeqCount(seq, x) == Cardinality({i \in DOMAIN seq : seq[i] = x})
Min2(a, b) == IF a < b THEN a ELSE b
Max2(a, b) == IF a > b THEN a ELSE b

RECURSIVE SetToSeq(_)
SetToSeq(S) == IF S = {} THEN <<>>
               ELSE LET x == CHOOSE x \in S : TRUE
                    IN  <<x>> \o SetToSeq(S \ {x})

\* All orders of a sequence (std::ranges::shuffle may produce any of them).
Permutations_(seq) ==
  {p \in [DOMAIN seq -> DOMAIN seq] : \A i, j \in DOMAIN seq : p[i] = p[j] => i = j}
Shuffles(seq) == {[i \in DOMAIN seq |-> seq[p[i]]] : p \in Permutations_(seq)}

(***************************************************************************)
(* Floats as exact rationals.                                              *)
(***************************************************************************)
RECURSIVE GCD(_, _)
GCD(a, b) == IF b = 0 THEN a ELSE GCD(b, a % b)
Abs(a) == IF a < 0 THEN -a ELSE a

INFINITY == [n |-> 1, d |-> 0]
Rat(n, d) ==
  IF d = 0 THEN INFINITY
  ELSE LET g == GCD(Abs(n), Abs(d))
           sg == IF d < 0 THEN -1 ELSE 1
       IN  [n |-> (sg * n) \div g, d |-> (sg * d) \div g]
Zero == Rat(0, 1)
RAdd(a, b) == IF a.d = 0 \/ b.d = 0 THEN INFINITY
              ELSE Rat(a.n * b.d + b.n * a.d, a.d * b.d)
RMul(a, b) == IF a.d = 0 \/ b.d = 0 THEN INFINITY ELSE Rat(a.n * b.n, a.d * b.d)
RDiv(a, b) == IF a.d = 0 \/ b.d = 0 \/ b.n = 0 THEN INFINITY ELSE Rat(a.n * b.d, a.d * b.n)
RLeq(a, b) == a.n * b.d <= b.n * a.d
RLess(a, b) == a.n * b.d < b.n * a.d

(***************************************************************************)
(* shared::Range.                                                          *)
(***************************************************************************)
\* Range::update_string
update_string(r) == [r EXCEPT !.out = RangeStr(r.min, r.max)]
\* Range(const size_t& m, const size_t& M)
RangeOf(a, b) == update_string([min |-> Min2(a, b), max |-> Max2(a, b), out |-> EmptyStr])
\* Range(const std::string& s)
RangeParse(cell) == [min |-> cell.lo, max |-> cell.hi, out |-> cell]
\* Range::in(size_t) and Range::in(Range)
RangeInVal(r, val) == val >= r.min /\ val <= r.max
RangeInRange(r, q) == q.min >= r.min /\ q.max <= r.max
\* Range::range
RangeWidth(r) == r.max - r.min
\* Range::update_min, update_max, update
update_min(r, a) == IF a < r.min \/ r.min = r.max THEN [r EXCEPT !.min = a] ELSE r
update_max(r, b) == IF b > r.max \/ r.min = r.max THEN [r EXCEPT !.max = b] ELSE r
RangeUpdate(r, q) == update_string(update_max(update_min(r, q.min), q.max))
\* operator< of Range compares the strings "[lo-hi]"; for numbers of one
\* digit count this is the order of (lo, hi).
RangeLess(r, q) == r.out.lo < q.out.lo \/ (r.out.lo = q.out.lo /\ r.out.hi < q.out.hi)

RECURSIVE SortRanges(_)
SortRanges(S) ==
  IF S = {} THEN <<>>
  ELSE LET x == CHOOSE x \in S : \A y \in S \ {x} : RangeLess(x, y)
       IN  <<x>> \o SortRanges(S \ {x})

(***************************************************************************)
(* domain::Domain: a node is [value, children].                            *)
(***************************************************************************)
NoDomain == [value |-> EmptyStr, children |-> <<>>]
Leaf(v) == [value |-> v, children |-> <<>>]
Node(v, ch) == [value |-> v, children |-> ch]
\* Domain::empty
DomainEmpty(d) == d.value = EmptyStr

\* Domain::find(child, stack): the stack holds the node, then its ancestors
\* below the root; the first child (depth first) that holds it wins.
RECURSIVE FindFrom(_, _, _)
FindFrom(d, child, i) ==
  IF i > Len(d.children) THEN [found |-> FALSE, stack |-> <<>>]
  ELSE LET c == d.children[i]
           sub == IF c.value = child THEN [found |-> TRUE, stack |-> <<>>]
                  ELSE FindFrom(c, child, 1)
       IN  IF sub.found THEN [found |-> TRUE, stack |-> Append(sub.stack, c.value)]
           ELSE FindFrom(d, child, i + 1)
\* Domain::find(child)
DomainFind(d, child) == FindFrom(d, child, 1).stack

\* Domain::breadth
RECURSIVE BreadthFrom(_, _, _)
BreadthFrom(d, name, i) ==
  IF i > Len(d.children) THEN 0
  ELSE LET c == d.children[i]
       IN  IF c.value = name THEN Len(d.children)
           ELSE LET in == BreadthFrom(c, name, 1)
                IN  IF in # 0 THEN in ELSE BreadthFrom(d, name, i + 1)
\* Domain::breadth that counts the node alone
DomainBreadth_self(d, name) == IF BreadthFrom(d, name, 1) # 0 THEN 1 ELSE 0
DomainBreadth(d, name) == BreadthFrom(d, name, 1)

(***************************************************************************)
(* table::Table.  A table is [rows, cols]; a column is the struct column   *)
(* without its width.                                                      *)
(***************************************************************************)
\* Table::generate_ranges, the double loop over col.data
RECURSIVE GenLoop(_, _, _)
GenLoop(col, i, j) ==
  IF i > Len(col.data) THEN col
  ELSE IF j > Len(col.data) THEN GenLoop(col, i + 1, 1)
  ELSE LET x == col.data[i]
           y == col.data[j]
       IN  IF x = y \/ x = Star \/ y = Star THEN GenLoop(col, i, j + 1)
           ELSE LET range == IF IsBracket(x) THEN RangeParse(x)
                             ELSE IF IsBracket(y) THEN RangeParse(y)
                             ELSE RangeOf(atoi(x), atoi(y))
                IN  GenLoop([col EXCEPT !.ranges = @ \cup {range},
                                        !.range = RangeUpdate(@, range)], i, j + 1)

\* generate_ranges without the erase of line 186
generate_ranges_keep_all(col) ==
  LET c1 == IF col.t # "integer"
            THEN [col EXCEPT !.range = RangeOf(0, Cardinality(col.unique))]
            ELSE GenLoop(col, 1, 1)
  IN  [c1 EXCEPT !.range = update_string(@)]

generate_ranges(col) ==
  LET c1 == IF col.t # "integer"
            THEN [col EXCEPT !.range = RangeOf(0, Cardinality(col.unique))]
            ELSE GenLoop(col, 1, 1)
      c2 == [c1 EXCEPT !.range = update_string(@)]
  IN  [c2 EXCEPT !.ranges = {r \in @ : r.out # c2.range.out}]

\* One column when the Table constructor has read the file (lines 346-377).
RawColumn(t, weight, sensitivity, graph, data) ==
  [t |-> t, weight |-> weight, sensitivity |-> sensitivity,
   unique |-> Range_(data), ranges |-> {}, range |-> RangeOf(0, 0),
   graph |-> graph, data |-> data]
\* One column as the Table constructor builds it.
Column(t, weight, sensitivity, graph, data) ==
  generate_ranges(RawColumn(t, weight, sensitivity, graph, data))

Table(cols) == [rows |-> IF cols = <<>> THEN 0 ELSE Len(cols[1].data), cols |-> cols]

\* Table::columns, Table::index(r, c), RowIterator::get
columns(t) == Len(t.cols)
index(t, r, c) == t.cols[c].data[r]
RowView(t, r) == [c \in 1..columns(t) |-> t.cols[c].data[r]]
SetCell(t, r, c, v) == [t EXCEPT !.cols[c].data[r] = v]

\* Table::mutations without the final shuffle
RangesIn(col, value) ==
  LET sorted == SortRanges(col.ranges)
  IN  IF IsBracket(value)
      THEN SelectSeq(sorted, LAMBDA range : RangeInRange(range, RangeParse(value)))
      ELSE SelectSeq(sorted, LAMBDA range : RangeInVal(range, atoi(value)))

mutations(value, col) ==
  LET suppress == <<Star>>
      derived == IF ~DomainEmpty(col.graph) THEN DomainFind(col.graph, value)
                 ELSE IF value # EmptyStr THEN <<value>>
                 ELSE <<>>
      ranges == IF col.t = "integer" THEN [i \in DOMAIN RangesIn(col, value) |-> RangesIn(col, value)[i].out]
                ELSE <<>>
  IN  suppress \o derived \o ranges

(***************************************************************************)
(* shared::Tree<T>: the prefix tree of the caches.  A node is named by the *)
(* path of keys from the root, so the tree is the map from the paths that  *)
(* exist to their values; T() is the value of a node nothing was stored at.*)
(***************************************************************************)
TreeNew(default) == [val |-> (<<>> :> default), hits |-> 0, misses |-> 0]
Prefixes(key) == {SubSeq(key, 1, x) : x \in 0..Len(key)}

\* Tree::Node::in that ends at "the path exists", without value != T().
NodeIn_path_exists(tree, key, default) == key \in DOMAIN tree.val
\* Tree::Node::in: the walk to depth max + 1, then value != T()
NodeIn(tree, key, default) == key \in DOMAIN tree.val /\ tree.val[key] # default
\* Tree::in, which counts the hit or the miss
TreeIn(tree, key, default) ==
  IF NodeIn(tree, key, default) THEN [tree EXCEPT !.hits = @ + 1]
  ELSE [tree EXCEPT !.misses = @ + 1]
\* Tree::get: throws when the path does not exist
TreeGet(tree, key) == tree.val[key]
\* Tree::add / Tree::Node::add: the nodes on the way are created, the value
\* is written at depth max + 1 unless one is there
TreeAdd(tree, key, v, default) ==
  IF key \in DOMAIN tree.val /\ tree.val[key] # default
  THEN [tree |-> tree, err |-> "Tree collision!"]
  ELSE [tree |-> [tree EXCEPT !.val =
                    [p \in (DOMAIN tree.val) \cup Prefixes(key) |->
                       IF p = key THEN v
                       ELSE IF p \in DOMAIN tree.val THEN tree.val[p]
                       ELSE default]],
        err |-> ""]

(***************************************************************************)
(* metrics.h.  g is the file's static state and shared::cache:             *)
(* [cache, score_cache, match_cache, match_trims].  Every function returns *)
(* its value, the state it leaves and the exception it threw ("" is none). *)
(***************************************************************************)
NoMatches == <<>>
Globals(cacheOn) == [cache |-> cacheOn, score_cache |-> TreeNew(Zero),
                     match_cache |-> TreeNew(NoMatches), match_trims |-> 0]

\* minimal_distortion, the score of one row (lines 78-85)
RECURSIVE MDRow(_, _, _, _)
MDRow(w, o, r, col) ==
  IF col > columns(w) THEN Zero
  ELSE RAdd(IF index(o, r, col) # index(w, r, col) THEN Rat(w.cols[col].weight, 1) ELSE Zero,
            MDRow(w, o, r, col + 1))
minimal_distortion_row(w, o, r) == [v |-> MDRow(w, o, r, 1), err |-> ""]

\* The score of one cell with no charge for a suppressed cell
CertaintyCell_star_free(w, o, r, col) ==
  LET original == index(o, r, col)
      mod == index(w, r, col)
      column == w.cols[col]
      graph == column.graph
      weight == Rat(o.cols[col].weight, 1)
  IN  IF original = mod THEN [v |-> Zero, err |-> ""]
      ELSE IF mod = Star THEN [v |-> Zero, err |-> ""]
      ELSE IF ~DomainEmpty(graph) /\ DomainFind(graph, mod) # <<>>
           THEN [v |-> RMul(Rat(DomainBreadth(graph, mod), Cardinality(column.unique)), weight),
                 err |-> ""]
      ELSE IF column.t = "integer" /\ IsBracket(mod)
           THEN [v |-> RMul(Rat(RangeWidth(RangeParse(mod)), RangeWidth(column.range)), weight),
                 err |-> ""]
      ELSE [v |-> Zero, err |-> "Invalid modification!"]

\* The score of one cell without the branch of the ranges (lines 138-140).
CertaintyCell_no_range(w, o, r, col) ==
  LET original == index(o, r, col)
      mod == index(w, r, col)
      column == w.cols[col]
      graph == column.graph
      weight == Rat(o.cols[col].weight, 1)
  IN  IF original = mod THEN [v |-> Zero, err |-> ""]
      ELSE IF mod = Star THEN [v |-> RMul(Rat(1, 1), weight), err |-> ""]
      ELSE IF ~DomainEmpty(graph) /\ DomainFind(graph, mod) # <<>>
           THEN [v |-> RMul(Rat(DomainBreadth(graph, mod), Cardinality(column.unique)), weight),
                 err |-> ""]
      ELSE [v |-> Zero, err |-> "Invalid modification!"]

\* certainty_score, the score of one cell (lines 118-147)
CertaintyCell(w, o, r, col) ==
  LET original == index(o, r, col)
      mod == index(w, r, col)
      column == w.cols[col]
      graph == column.graph
      weight == Rat(o.cols[col].weight, 1)
  IN  IF original = mod THEN [v |-> Zero, err |-> ""]
      ELSE IF mod = Star THEN [v |-> RMul(Rat(1, 1), weight), err |-> ""]
      ELSE IF ~DomainEmpty(graph) /\ DomainFind(graph, mod) # <<>>
           THEN [v |-> RMul(Rat(DomainBreadth(graph, mod), Cardinality(column.unique)), weight),
                 err |-> ""]
      ELSE IF column.t = "integer" /\ IsBracket(mod)
           THEN [v |-> RMul(Rat(RangeWidth(RangeParse(mod)), RangeWidth(column.range)), weight),
                 err |-> ""]
      ELSE [v |-> Zero, err |-> "Invalid modification!"]

RECURSIVE CertaintyRow(_, _, _, _)
CertaintyRow(w, o, r, col) ==
  IF col > columns(w) THEN [v |-> Zero, err |-> ""]
  ELSE LET cell == CertaintyCell(w, o, r, col)
           rest == CertaintyRow(w, o, r, col + 1)
       IN  IF cell.err # "" THEN cell
           ELSE [v |-> RAdd(cell.v, rest.v), err |-> rest.err]
certainty_score_row(w, o, r) == CertaintyRow(w, o, r, 1)

\* The row loop both scores share (lines 70-91, 107-155): a row the score
\* cache holds is read from it, any other is scored and stored.
RECURSIVE ScoreRows(_, _, _, _, _, _)
ScoreRows(mm, w, o, g, r, score) ==
  IF r > w.rows THEN [v |-> score, g |-> g, err |-> ""]
  ELSE LET row == RowView(w, r)
           probed == IF g.cache THEN [g EXCEPT !.score_cache = TreeIn(@, row, Zero)] ELSE g
       IN  IF g.cache /\ NodeIn(g.score_cache, row, Zero)
           THEN ScoreRows(mm, w, o, probed, r + 1,
                          RAdd(score, TreeGet(g.score_cache, row)))
           ELSE LET rs == IF mm = "md" THEN minimal_distortion_row(w, o, r)
                          ELSE certainty_score_row(w, o, r)
                    added == IF g.cache THEN TreeAdd(probed.score_cache, row, rs.v, Zero)
                             ELSE [tree |-> probed.score_cache, err |-> ""]
                IN  IF rs.err # "" THEN [v |-> score, g |-> probed, err |-> rs.err]
                    ELSE IF added.err # "" THEN [v |-> score, g |-> probed, err |-> added.err]
                    ELSE ScoreRows(mm, w, o, [probed EXCEPT !.score_cache = added.tree],
                                   r + 1, RAdd(score, rs.v))

minimal_distortion(w, o, g) == ScoreRows("md", w, o, g, 1, Zero)
certainty_score(w, o, g) == ScoreRows("c", w, o, g, 1, Zero)
\* m == metric::md ? minimal_distortion(...) : certainty_score(...)
Score(mm, w, o, g) == IF mm = "md" THEN minimal_distortion(w, o, g) ELSE certainty_score(w, o, g)

\* match_row, the test of one field (lines 186-212)
FieldMatches(column, rowx, comparex) ==
  \/ rowx = comparex
  \/ rowx = Star
  \/ column.sensitivity # "quasi"
  \/ IF ~DomainEmpty(column.graph)
     THEN \/ SeqCount(DomainFind(column.graph, rowx), comparex) > 0
          \/ SeqCount(DomainFind(column.graph, comparex), rowx) > 0
     ELSE /\ column.t = "integer"
          /\ IsBracket(rowx)
          /\ RangeInVal(RangeParse(rowx), atoi(comparex))

\* The loop that compares the last column only
MatchScan_last_column(o, row, c) ==
  SelectSeq([i \in 1..o.rows |-> i],
            LAMBDA i : FieldMatches(o.cols[c], row[c], index(o, i, c)))
\* match_row, the loop over the rows of the source (lines 175-217)
MatchScan(o, row, c) ==
  SelectSeq([i \in 1..o.rows |-> i],
            LAMBDA i : \A x \in 1..c : FieldMatches(o.cols[x], row[x], index(o, i, x)))

\* match_row that keeps one entry per row, whatever the prefix length.
match_row_any_prefix(o, row, c, g) ==
  LET key == row
      probed == IF g.cache THEN [g EXCEPT !.match_cache = TreeIn(@, key, NoMatches)] ELSE g
  IN  IF g.cache /\ NodeIn(g.match_cache, key, NoMatches)
      THEN [v |-> TreeGet(g.match_cache, key), g |-> probed, err |-> ""]
      ELSE LET matches == MatchScan(o, row, c)
               added == IF g.cache THEN TreeAdd(probed.match_cache, key, matches, NoMatches)
                        ELSE [tree |-> probed.match_cache, err |-> ""]
           IN  [v |-> matches, g |-> [probed EXCEPT !.match_cache = added.tree],
                err |-> added.err]
\* match_row
match_row(o, row, c, g) ==
  LET key == SubSeq(row, 1, c)
      probed == IF g.cache THEN [g EXCEPT !.match_cache = TreeIn(@, key, NoMatches)] ELSE g
  IN  IF g.cache /\ NodeIn(g.match_cache, key, NoMatches)
      THEN [v |-> TreeGet(g.match_cache, key), g |-> probed, err |-> ""]
      ELSE LET matches == MatchScan(o, row, c)
               added == IF g.cache THEN TreeAdd(probed.match_cache, key, matches, NoMatches)
                        ELSE [tree |-> probed.match_cache, err |-> ""]
           IN  [v |-> matches, g |-> [probed EXCEPT !.match_cache = added.tree],
                err |-> added.err]

\* k_tree: the recursion tries, for row x, each of its matches that no
\* earlier row on the path was given (tree is the path), and at x ==
\* matches.size() adds the path to ks, row by row.  KTreePaths is the set of
\* the complete paths the recursion reaches from tree.
RECURSIVE KTreePaths(_, _, _)
KTreePaths(matches, tree, x) ==
  IF x = Len(matches) + 1 THEN {tree}
  ELSE UNION {KTreePaths(matches, Append(tree, matches[x][n]), x + 1) :
              n \in {n \in DOMAIN matches[x] : SeqCount(tree, matches[x][n]) = 0}}
\* k_tree without the test that no earlier row was given the match.
k_tree_per_row(matches, tree, ks, x) ==
  [i \in DOMAIN ks |-> ks[i] \cup Range_(matches[i])]
k_tree(matches, tree, ks, x) ==
  [i \in DOMAIN ks |-> ks[i] \cup {path[i] : path \in KTreePaths(matches, tree, x)}]

\* k_anonymity, the loop that collects the matches (lines 294-303)
RECURSIVE CollectMatches(_, _, _, _, _, _, _)
CollectMatches(w, o, kk, c, g, r, matches) ==
  IF r > w.rows THEN [trimmed |-> FALSE, matches |-> matches, g |-> g, err |-> ""]
  ELSE LET match == match_row(o, RowView(w, r), c, g)
       IN  IF match.err # "" THEN [trimmed |-> FALSE, matches |-> matches, g |-> match.g,
                                   err |-> match.err]
           ELSE IF Len(match.v) < kk
           THEN [trimmed |-> TRUE, matches |-> matches,
                 g |-> [match.g EXCEPT !.match_trims = @ + 1], err |-> ""]
           ELSE CollectMatches(w, o, kk, c, match.g, r + 1, Append(matches, match.v))

\* k_anonymity, from the matches on: k_tree and the loop over its sets
\* (lines 305-315)
KDecide(got, kk) ==
  [v |-> /\ got.err = ""
         /\ ~got.trimmed
         /\ \A tree \in {k_tree(got.matches, <<>>, [i \in 1..Len(got.matches) |-> {}], 1)} :
              \A i \in DOMAIN tree : Cardinality(tree[i]) >= kk,
   g |-> got.g, err |-> got.err]
\* k_anonymity(w, o, k, c)
k_anonymity(w, o, kk, c, g) ==
  CHOOSE r \in {KDecide(got, kk) : got \in {CollectMatches(w, o, kk, c, g, 1, <<>>)}} : TRUE

\* av_k_anonymity(w, o): the sum of the sizes and what it is divided by
RECURSIVE CollectAll(_, _, _, _, _, _)
CollectAll(w, o, c, g, r, matches) ==
  IF r > w.rows THEN [matches |-> matches, g |-> g, err |-> ""]
  ELSE LET match == match_row(o, RowView(w, r), c, g)
       IN  IF match.err # "" THEN [matches |-> matches, g |-> match.g, err |-> match.err]
           ELSE CollectAll(w, o, c, match.g, r + 1, Append(matches, match.v))

RECURSIVE SumSizes(_, _)
SumSizes(tree, i) == IF i > Len(tree) THEN 0 ELSE Cardinality(tree[i]) + SumSizes(tree, i + 1)

av_k_anonymity(w, o, c, g) ==
  LET got == CollectAll(w, o, c, g, 1, <<>>)
      tree == k_tree(got.matches, <<>>, [i \in 1..Len(got.matches) |-> {}], 1)
  IN  [v |-> Rat(SumSizes(tree, 1), Len(tree)), g |-> got.g, err |-> got.err]

(***************************************************************************)
(* The inputs: tables as the Table constructor builds them from a file, a  *)
(* header and the --types, --weights, --sensitivities and --domains        *)
(* arguments.  Each kind of column is a column of the examples; a column   *)
(* of kind Level is a Job column whose file holds values of two levels of  *)
(* the hierarchy.                                                          *)
(***************************************************************************)
\* Job/Blue Collar: Mechanic, Plumber    Job/White Collar: Doctor, Lawyer
JobDomain ==
  Node(Str("Job"),
       <<Node(Str("Blue Collar"), <<Leaf(Str("Mechanic")), Leaf(Str("Plumber"))>>),
         Node(Str("White Collar"), <<Leaf(Str("Doctor")), Leaf(Str("Lawyer"))>>)>>)
\* Age/Young: 25, 27    Age/Old: 30
AgeDomain ==
  Node(Str("Age"),
       <<Node(Str("Young"), <<Leaf(Num(25)), Leaf(Num(27))>>),
         Node(Str("Old"), <<Leaf(Num(30))>>)>>)

Kinds == {"Gender", "Job", "Level", "Age", "AgeH", "Name"}
Alphabet(kind) ==
  CASE kind = "Gender" -> {Str("M"), Str("F")}
    [] kind = "Job" -> {Str("Mechanic"), Str("Plumber"), Str("Doctor")}
    [] kind = "Level" -> {Str("Mechanic"), Str("Blue Collar")}
    [] kind = "Age" -> {Num(25), Num(27), Num(30)}
    [] kind = "AgeH" -> {Num(25), Num(27), Num(30)}
    [] kind = "Name" -> {Str("Ann"), Str("Bob")}
MakeColumn(kind, weight, data) ==
  CASE kind = "Gender" -> Column("string", weight, "quasi", NoDomain, data)
    [] kind = "Job" -> Column("string", weight, "quasi", JobDomain, data)
    [] kind = "Level" -> Column("string", weight, "quasi", JobDomain, data)
    [] kind = "Age" -> Column("integer", weight, "quasi", NoDomain, data)
    [] kind = "AgeH" -> Column("integer", weight, "quasi", AgeDomain, data)
    [] kind = "Name" -> Column("string", weight, "ignore", NoDomain, data)

\* The columns of n rows of the given kinds, and the tables of them.
ColumnsOf(kinds, weights, n) ==
  UNION {{MakeColumn(kind, wt, data) : data \in [1..n -> Alphabet(kind)], wt \in weights} :
         kind \in kinds}
TablesOfShape(kinds, weights, n, c) ==
  {Table(cols) : cols \in [1..c -> ColumnsOf(kinds, weights, n)]}
TablesOf(kinds, weights) ==
  UNION {TablesOfShape(kinds, weights, q[1], q[2]) :
         q \in {q \in (1..MaxCells) \X (1..MaxCols) : q[1] * q[2] <= MaxCells}}

\* The rows a row of the original can be generalised to, and the tables a
\* table can be: each quasi cell one of the mutations of the original cell.
CellChoices(o, r, c) ==
  IF o.cols[c].sensitivity = "quasi" THEN Range_(mutations(index(o, r, c), o.cols[c]))
  ELSE {index(o, r, c)}
RowChoices(o, r) ==
  {row \in [1..columns(o) -> UNION {CellChoices(o, r, c) : c \in 1..columns(o)}] :
     \A c \in 1..columns(o) : row[c] \in CellChoices(o, r, c)}
\* Table o with the rows of rs.
WithRows(o, rs) ==
  [o EXCEPT !.cols = [c \in 1..columns(o) |->
                        [o.cols[c] EXCEPT !.data = [r \in 1..o.rows |-> rs[r][c]]]]]
Generalisations(o) ==
  {WithRows(o, rs) : rs \in {rs \in [1..o.rows -> UNION {RowChoices(o, r) : r \in 1..o.rows}] :
                               \A r \in 1..o.rows : rs[r] \in RowChoices(o, r)}}

(***************************************************************************)
(* The state.  original, working, k, m, max, states, tables, view and best *)
(* are the fields of mg::MinGen; cache, score_cache, match_cache and       *)
(* match_trims are shared::cache and the static state of metrics.h; stack  *)
(* and pc are the call stack of anonymize_worker and the place of the      *)
(* thread; prune records the last pruning test; res is the last call of a  *)
(* metric and what it returned; prior is the original tables of the       *)
(* searches the process ran before this one.  ga holds the fields of       *)
(* ga::GeneticAlgorithm that MinGen does not have and the place of its     *)
(* worker; poll holds the locals of the thread that runs anonymize while   *)
(* the worker runs in the background.                                      *)
(***************************************************************************)
VARIABLES original, working, k, m, max, states, tables, view, best,
          stack, pc, prune,
          cache, score_cache, match_cache, match_trims,
          res, prior, ga, poll

mgVars == <<original, working, k, m, max, states, tables, view, best, stack, pc, prune>>
metricVars == <<cache, score_cache, match_cache, match_trims>>
gaVars == <<ga, poll>>
vars == <<mgVars, metricVars, res, prior, gaVars>>

\* The static state of metrics.h as the metrics take it, and its update.
G == [cache |-> cache, score_cache |-> score_cache, match_cache |-> match_cache,
      match_trims |-> match_trims]
SetG(g) ==
  /\ cache' = g.cache
  /\ score_cache' = g.score_cache
  /\ match_cache' = g.match_cache
  /\ match_trims' = g.match_trims

\* SIZE_MAX, which main passes for --iterations=-1
SIZE_MAX == -1
NoRes == [op |-> "none"]
NoPrune == [valid |-> FALSE]
NoGA == [pc |-> "none"]
NoPoll == [pc |-> "none"]

\* The state of a fresh process that has loaded table o.
LoadedTable(o) ==
  /\ original = o
  /\ working = o
  /\ max = SIZE_MAX
  /\ states = 0
  /\ tables = <<>>
  /\ view = Table(<<>>)
  /\ best = INFINITY
  /\ stack = <<>>
  /\ prune = NoPrune
  /\ score_cache = TreeNew(Zero)
  /\ match_cache = TreeNew(NoMatches)
  /\ match_trims = 0
  /\ res = NoRes
  /\ prior = <<>>
\* The same, with no genetic algorithm constructed.
Loaded(o) == LoadedTable(o) /\ ga = NoGA /\ poll = NoPoll

(***************************************************************************)
(* The k-anonymity verifier applied to the tables the engine can produce.  *)
(***************************************************************************)
KKinds == {"Gender", "Job", "Name"}

InitK ==
  /\ \E o \in TablesOf(KKinds, {1}) : Loaded(o)
  /\ k = 2
  /\ m = "md"
  /\ pc = "idle"
  /\ cache = TRUE

\* A cell of a quasi column takes one of the mutations of the original cell
\* (what MinGen and the genetic algorithm do to a working table).
Generalise ==
  /\ pc = "idle"
  /\ \E r \in 1..original.rows, c \in 1..columns(original) :
       \E v \in CellChoices(original, r, c) \ {index(working, r, c)} :
         working' = SetCell(working, r, c, v)
  /\ UNCHANGED <<original, k, m, max, states, tables, view, best, stack, pc, prune,
                 metricVars, res, prior>>
  /\ UNCHANGED gaVars

\* metric::k_anonymity(working, original, k, c)
CallKAnonymity ==
  /\ pc = "idle"
  /\ \E kk \in 1..MaxK, c \in 1..columns(original) :
       \E r \in {k_anonymity(working, original, kk, c, G)} :
           /\ res' = [op |-> "k_anonymity", k |-> kk, c |-> c, v |-> r.v, err |-> r.err]
           /\ SetG(r.g)
  /\ pc' = "returned"
  /\ UNCHANGED <<original, working, k, m, max, states, tables, view, best, stack, prune,
                 prior>>
  /\ UNCHANGED gaVars

NextK == Generalise \/ CallKAnonymity
SpecK == InitK /\ [][NextK]_vars

(***************************************************************************)
(* C4, C5: what k_anonymity decides.                                       *)
(***************************************************************************)
\* The injective assignments of the rows of w to rows of o, each row to one
\* of its matches on the columns up to c.
AssignmentsOf(M, n) ==
  {sigma \in [DOMAIN M -> 1..n] :
     /\ \A i \in DOMAIN M : sigma[i] \in M[i]
     /\ \A i, j \in DOMAIN M : sigma[i] = sigma[j] => i = j}
Assignments(w, o, c) ==
  AssignmentsOf([i \in 1..w.rows |-> Range_(MatchScan(o, RowView(w, i), c))], o.rows)
\* Every row of w is given at least kk original rows by the assignments.
EveryRowHas(w, o, c, kk) ==
  \A A \in {Assignments(w, o, c)} :
    \A r \in 1..w.rows : Cardinality({sigma[r] : sigma \in A}) >= kk

\* C4: k_anonymity(W, O, k, c) is true exactly when every row of W is given
\* at least k distinct original rows by the injective assignments of all
\* rows of W to matching rows of O.
C4_KAnonymityIsAssignmentCount ==
  res.op = "k_anonymity" =>
    (res.v <=> EveryRowHas(working, original, res.c, res.k))

\* Witness of C4: every row alone matches k original rows, yet the verifier
\* says no, because the assignments leave some row fewer than k.
C4_Witness ==
  /\ res.op = "k_anonymity"
  /\ res.v = FALSE
  /\ \A r \in 1..working.rows :
       Len(MatchScan(original, RowView(working, r), res.c)) >= res.k

\* Scenario S4: (M),(M),(F),(F) with one M suppressed.
S4_O == Table(<<MakeColumn("Gender", 1, <<Str("M"), Str("M"), Str("F"), Str("F")>>)>>)
S4_W == SetCell(S4_O, 1, 1, Star)

\* C5: k_anonymity((*),(M),(F),(F) against (M),(M),(F),(F), k = 2) is false.
C5_S4ReturnsFalse ==
  (res.op = "k_anonymity" /\ original = S4_O /\ working = S4_W /\ res.k = 2 /\ res.c = 1)
    => res.v = FALSE

(***************************************************************************)
(* match_row applied to the rows the engine can produce.                   *)
(***************************************************************************)
InitMatch ==
  /\ \E o \in TablesOf(Kinds, {1}) : Loaded(o)
  /\ k = 2
  /\ m = "md"
  /\ pc = "idle"
  /\ cache \in BOOLEAN

\* metric::match_row(original, row, c) for a generalisation of row r
CallMatchRow ==
  /\ pc = "idle"
  /\ \E r \in 1..original.rows, c \in 1..columns(original) :
       \E row \in RowChoices(original, r) :
         \E got \in {match_row(original, row, c, G)} :
             /\ res' = [op |-> "match_row", row |-> row, c |-> c, v |-> got.v,
                        err |-> got.err]
             /\ SetG(got.g)
  /\ pc' = "returned"
  /\ UNCHANGED <<original, working, k, m, max, states, tables, view, best, stack, prune,
                 prior>>
  /\ UNCHANGED gaVars

NextMatch == CallMatchRow
SpecMatch == InitMatch /\ [][NextMatch]_vars

(***************************************************************************)
(* C6: what match_row returns.                                             *)
(***************************************************************************)
\* The nodes of a hierarchy and the values below a node.
RECURSIVE SubNodes(_)
SubNodes(d) == {d} \cup UNION {SubNodes(d.children[i]) : i \in DOMAIN d.children}
ValuesBelow(d) == {n.value : n \in SubNodes(d) \ {d}}
IsAncestor(graph, a, v) == \E n \in SubNodes(graph) : n.value = a /\ v \in ValuesBelow(n)

\* The consistency of a working cell with an original cell, as stated.
Consistent(column, cell, orig) ==
  \/ cell = orig
  \/ cell = Star
  \/ column.sensitivity # "quasi"
  \/ /\ ~DomainEmpty(column.graph)
     /\ IsAncestor(column.graph, cell, orig) \/ IsAncestor(column.graph, orig, cell)
  \/ /\ column.t = "integer"
     /\ cell.tag = "["
     /\ orig.tag = "i"
     /\ cell.lo <= orig.lo /\ orig.lo <= cell.hi
ConsistentRows(o, row, c) ==
  {i \in 1..o.rows : \A x \in 1..c : Consistent(o.cols[x], row[x], index(o, i, x))}

\* C6: match_row(O, row, c) returns exactly the indices of the original rows
\* consistent with row on every column up to c: equal cells, a suppressed
\* cell, a column that is not quasi, a hierarchy ancestor either way, or a
\* range of an integer column (with or without a hierarchy) that contains the
\* original integer.
C6_MatchRowIsConsistency ==
  res.op = "match_row" =>
    /\ Range_(res.v) = ConsistentRows(original, res.row, res.c)
    /\ Len(res.v) = Cardinality(Range_(res.v))

\* The same, for the tables none of whose integer columns has a hierarchy.
C6_WithoutIntegerHierarchy ==
  (\A x \in 1..columns(original) :
     original.cols[x].t = "integer" => DomainEmpty(original.cols[x].graph))
    => C6_MatchRowIsConsistency

(***************************************************************************)
(* The caches over the calls of a search, and over two searches of one     *)
(* process.  The static caches of metrics.h live as long as the process;   *)
(* a search calls the score of its metric, match_row and k_anonymity on    *)
(* generalisations of its original table.                                  *)
(***************************************************************************)
\* A table of the cache runs has at most MaxCacheRows rows, a call is made
\* while the caches were probed fewer than MaxProbes times, and a second
\* search is run on a table of at most MaxSearchCells cells.
MaxCacheRows == 2
MaxProbes == 2
MaxSearchCells == 2
CKinds == {"Gender", "Level"}
CWeights == {1, 2}

Probes == score_cache.hits + score_cache.misses + match_cache.hits + match_cache.misses
Searching == pc \in {"first search", "second search"}

\* The kind a column was made as.
KindOf(col) == CHOOSE kind \in Kinds : col = MakeColumn(kind, col.weight, col.data)
\* The tables another file or another --weights would make of table o: one
\* cell of the file, or the weight of one column, is another.
OtherTables(o) ==
  {[o EXCEPT !.cols[c] = MakeColumn(KindOf(@), @.weight, [@.data EXCEPT ![r] = v])] :
     <<r, c, v>> \in {q \in (1..o.rows) \X (1..columns(o)) \X UNION {Alphabet(kind) : kind \in CKinds} :
                        q[3] \in Alphabet(KindOf(o.cols[q[2]]))}}
  \cup {[o EXCEPT !.cols[c].weight = w] : c \in 1..columns(o), w \in CWeights}

InitCache ==
  /\ \E o \in UNION {TablesOfShape(CKinds, {1}, n, c) :
                        n \in 1..MaxCacheRows, c \in 1..MaxCols} : Loaded(o)
  /\ k = 2
  /\ m \in {"md", "c"}
  /\ cache = TRUE
  /\ pc = "first search"

\* The score of the metric of the search (mg.h:119, ga.h:165) on a
\* generalisation of the original.
SearchScore ==
  /\ Searching
  /\ Probes < MaxProbes
  /\ \E w \in Generalisations(original) :
       \E got \in {Score(m, w, original, G)} :
           /\ working' = w
           /\ res' = [op |-> "score", v |-> got.v, err |-> got.err]
           /\ SetG(got.g)
  /\ UNCHANGED <<original, k, m, max, states, tables, view, best, stack, pc, prune, prior>>
  /\ UNCHANGED gaVars

\* match_row on a generalisation of a row, for a prefix of the columns.
SearchMatchRow ==
  /\ Searching
  /\ Probes < MaxProbes
  /\ \E r \in 1..original.rows, c \in 1..columns(original) :
       \E row \in RowChoices(original, r) :
         \E got \in {match_row(original, row, c, G)} :
             /\ res' = [op |-> "match_row", row |-> row, c |-> c, v |-> got.v,
                        err |-> got.err]
             /\ SetG(got.g)
  /\ UNCHANGED <<original, working, k, m, max, states, tables, view, best, stack, pc, prune,
                 prior>>
  /\ UNCHANGED gaVars

\* k_anonymity of the search (mg.h:179, mg.h:217, ga.h:157) on a
\* generalisation of the original, for a prefix of the columns.
SearchKAnonymity ==
  /\ Searching
  /\ Probes < MaxProbes
  /\ \E w \in Generalisations(original), c \in 1..columns(original) :
       \E got \in {k_anonymity(w, original, k, c, G)} :
           /\ working' = w
           /\ res' = [op |-> "k_anonymity", k |-> k, c |-> c, v |-> got.v, err |-> got.err]
           /\ SetG(got.g)
  /\ UNCHANGED <<original, k, m, max, states, tables, view, best, stack, pc, prune, prior>>
  /\ UNCHANGED gaVars

\* A second search in the process: another table, weights, k or metric,
\* and the caches as the first search left them.
NextSearch ==
  /\ pc = "first search"
  /\ original.rows * columns(original) <= MaxSearchCells
  /\ Probes < MaxProbes
  /\ pc' = "second search"
  /\ \E o \in OtherTables(original) :
       /\ original' = o
       /\ working' = o
  /\ m' \in {"md", "c"}
  /\ prior' = Append(prior, original)
  /\ res' = NoRes
  /\ UNCHANGED <<k, max, states, tables, view, best, stack, prune, metricVars>>
  /\ UNCHANGED gaVars

NextCache == SearchScore \/ SearchMatchRow \/ SearchKAnonymity \/ NextSearch
SpecCache == InitCache /\ [][NextCache]_vars

(***************************************************************************)
(* C7, C8, C9: the caches change no result.                                *)
(***************************************************************************)
\* What the last call returns when the caches are disabled (--no-cache).
Uncached ==
  CASE res.op = "score" -> Score(m, working, original, Globals(FALSE))
    [] res.op = "match_row" -> match_row(original, res.row, res.c, Globals(FALSE))
    [] res.op = "k_anonymity" -> k_anonymity(working, original, res.k, res.c, Globals(FALSE))
SameAsUncached == \A fresh \in {Uncached} : res.v = fresh.v /\ res.err = fresh.err

\* C7: within one search, minimal_distortion and certainty_score return
\* with the score cache what they return without it, whatever was scored
\* before.
C7_ScoreCacheTransparent ==
  (pc = "first search" /\ res.op = "score") => SameAsUncached

\* The same, for the original tables that hold leaves of the hierarchy only.
IsLeafValue(column, v) ==
  \E n \in SubNodes(column.graph) : n.value = v /\ n.children = <<>>
C7_LeafOriginals ==
  (\A r \in 1..original.rows, c \in 1..columns(original) :
     IsLeafValue(original.cols[c], index(original, r, c)))
    => C7_ScoreCacheTransparent

\* C8: within one search, match_row and k_anonymity return with the match
\* cache what they return without it, for every prefix length; an entry
\* stored for one prefix length of a row is not returned for another.
C8_MatchCacheTransparent ==
  (pc = "first search" /\ res.op \in {"match_row", "k_anonymity"}) => SameAsUncached

\* Witness of C8: match_row returned for a row and a prefix length while the
\* cache holds, for the same row and another prefix length, other matches.
C8_Witness ==
  /\ pc = "first search"
  /\ res.op = "match_row"
  /\ \E n \in 1..Len(res.row) :
       /\ n # res.c
       /\ NodeIn(match_cache, SubSeq(res.row, 1, n), NoMatches)
       /\ TreeGet(match_cache, SubSeq(res.row, 1, n)) # res.v

\* C9: a second search of the process, against another table (or weights
\* or metric), gets with the caches of the first search the results it gets
\* with empty caches.
C9_CachesKeptAcrossSearches ==
  (pc = "second search" /\ res.op # "none") => SameAsUncached

\* The table without its weights.
Unweighted(o) ==
  [rows |-> o.rows, cols |-> [c \in 1..columns(o) |-> [o.cols[c] EXCEPT !.weight = 1]]]
SameTableAsBefore == \A i \in DOMAIN prior : Unweighted(prior[i]) = Unweighted(original)

\* C9, amended: a second search against the same original table (the
\* weights, k and the metric may be others) gets from match_row and
\* k_anonymity, with the match cache of the first search, the results it
\* gets with empty caches.
C9_MatchCacheKeptForSameTable ==
  (pc = "second search" /\ SameTableAsBefore /\ res.op \in {"match_row", "k_anonymity"})
    => SameAsUncached

\* Witness of C9 amended: the second search, with other weights, was
\* answered from the cache of the first.
C9_Witness ==
  /\ pc = "second search"
  /\ SameTableAsBefore
  /\ original # prior[1]
  /\ res.op = "match_row"
  /\ match_cache.hits > 0

(***************************************************************************)
(* ga.h: the fitness of the genetic algorithm.                             *)
(***************************************************************************)
\* cells = original.columns() * original.get_column(0).data.size()
Cells(o) == columns(o) * o.rows

\* GeneticAlgorithm::fitness, the branch of a k-anonymous table
FitAnonymous(f, o, kk, mm, g) ==
  CHOOSE r \in {[v |-> RDiv(Rat(kk * Cells(o), 1), s_score.v), anon |-> TRUE,
                 s_score |-> s_score.v, g |-> s_score.g, err |-> s_score.err] :
                s_score \in {Score(mm, f, o, g)}} : TRUE
\* GeneticAlgorithm::fitness, the branch of a table that is not
FitAverage(f, o, kk, g) ==
  CHOOSE r \in {[v |-> RDiv(av.v, Rat(kk, 1)), anon |-> FALSE, s_score |-> Zero,
                 g |-> av.g, err |-> av.err] :
                av \in {av_k_anonymity(f, o, columns(f), g)}} : TRUE
\* GeneticAlgorithm::fitness
fitness(f, o, kk, mm, g) ==
  CHOOSE r \in {IF ka.v THEN FitAnonymous(f, o, kk, mm, ka.g) ELSE FitAverage(f, o, kk, ka.g) :
                ka \in {k_anonymity(f, o, kk, columns(f), g)}} : TRUE

FKinds == {"Gender", "Name"}
FWeights == {1, 5}
NoFit == [valid |-> FALSE, v |-> Zero, anon |-> FALSE]

InitFit ==
  /\ \E o \in TablesOf(FKinds, FWeights) : Loaded(o)
  /\ k \in 2..MaxK
  /\ m \in {"md", "c"}
  /\ cache = TRUE
  /\ pc = "idle"

\* fitness(f) of a table of the population: every quasi cell is a mutation
\* of the original cell (ga.h:183-205, 334-340).  res keeps the fitness of
\* the table before it.
CallFitness ==
  /\ pc \in {"idle", "one"}
  /\ pc' = IF pc = "idle" THEN "one" ELSE "two"
  /\ \E f \in Generalisations(original) :
       \E fit \in {fitness(f, original, k, m, G)} :
         /\ working' = f
         /\ res' = [op |-> "fitness", v |-> fit.v, anon |-> fit.anon, err |-> fit.err,
                    s_score |-> fit.s_score,
                    prev |-> IF res.op = "fitness"
                             THEN [valid |-> TRUE, v |-> res.v, anon |-> res.anon]
                             ELSE NoFit]
         /\ SetG(fit.g)
  /\ UNCHANGED <<original, k, m, max, states, tables, view, best, stack, prune, prior>>
  /\ UNCHANGED gaVars

NextFit == CallFitness
SpecFit == InitFit /\ [][NextFit]_vars

(***************************************************************************)
(* C10: the two stages of the fitness.                                     *)
(***************************************************************************)
\* C10: the fitness k * cells / s_score of a k-anonymous table is strictly
\* greater than the fitness av_k / k of a table that is not k-anonymous,
\* whatever the weights and the size of the table.
C10_AnonymousDominates ==
  (res.op = "fitness" /\ res.prev.valid /\ res.anon /\ ~res.prev.anon)
    => RLess(res.prev.v, res.v)

\* The same, for the tables all of whose weights are 1.  It holds for the
\* tables of at most MaxCells cells only: with 6 rows (M),(F),(F),(F),(F),(F)
\* and k = 2, the table that keeps M and suppresses the rest has fitness
\* 13/6, the table that suppresses all has 2.
C10_UnitWeights ==
  (\A c \in 1..columns(original) : original.cols[c].weight = 1) => C10_AnonymousDominates

(***************************************************************************)
(* C11: the divisor of the fitness.                                        *)
(***************************************************************************)
\* C11: whenever fitness is evaluated on a table that is k-anonymous, its
\* s_score is not zero, so k * cells / s_score never divides by zero, for
\* every original table (those already k-anonymous included) and every k.
C11_ScoreNonZero == (res.op = "fitness" /\ res.anon) => res.s_score # Zero

\* The same, for the tables that differ from the original in some cell.
C11_ChangedTables == working # original => C11_ScoreNonZero

(***************************************************************************)
(* mg.h: MinGen.  The worker is the recursion anonymize_worker(row, col);  *)
(* stack holds one frame for every call that is inside its loop over the   *)
(* mutations of a cell: the cell, the mutations in the order of the loop,  *)
(* the place i of the loop and the copy of the cell.  S is the state the   *)
(* worker works on: the fields of MinGen, the stack and the state of       *)
(* metrics.h.                                                              *)
(***************************************************************************)
MGState == [working |-> working, states |-> states, tables |-> tables, view |-> view,
            best |-> best, stack |-> stack, prune |-> prune, g |-> G, err |-> ""]
Frame(row, col, muts, copy) == [row |-> row, col |-> col, muts |-> muts, i |-> 1, copy |-> copy]
Top(S) == S.stack[Len(S.stack)]
Pop(S) == [S EXCEPT !.stack = SubSeq(@, 1, Len(@) - 1)]

\* score_results without "tables = {}" (line 122)
Scored_keep_tied(S, score) ==
  IF score.err # "" THEN [S EXCEPT !.states = @ + 1, !.g = score.g, !.err = score.err]
  ELSE LET better == S.best = INFINITY \/ RLess(score.v, S.best)
           kept == S.tables
           best1 == IF better THEN score.v ELSE S.best
       IN  [S EXCEPT !.states = @ + 1,
                     !.g = score.g,
                     !.best = best1,
                     !.view = IF better THEN S.working ELSE @,
                     !.tables = IF score.v = best1 THEN Append(kept, S.working) ELSE kept]
\* MinGen::score_results, from the score on (lines 120-127)
Scored(S, score) ==
  IF score.err # "" THEN [S EXCEPT !.states = @ + 1, !.g = score.g, !.err = score.err]
  ELSE LET better == S.best = INFINITY \/ RLess(score.v, S.best)
           kept == IF better THEN <<>> ELSE S.tables
           best1 == IF better THEN score.v ELSE S.best
       IN  [S EXCEPT !.states = @ + 1,
                     !.g = score.g,
                     !.best = best1,
                     !.view = IF better THEN S.working ELSE @,
                     !.tables = IF score.v = best1 THEN Append(kept, S.working) ELSE kept]
\* MinGen::score_results
score_results(S) ==
  CHOOSE T \in {Scored(S, score) : score \in {Score(m, S.working, original, S.g)}} : TRUE

\* anonymize_worker(row, col) up to its loop (lines 140-154): the states S
\* can be left in; the call has returned in those whose stack is unchanged.
RECURSIVE anonymize_worker(_, _, _)
anonymize_worker(S, row, col) ==
  IF S.states = max THEN {S}
  ELSE IF col = columns(S.working) + 1 THEN {score_results(S)}
  ELSE IF S.working.cols[col].sensitivity # "quasi" THEN anonymize_worker(S, row, col + 1)
  ELSE LET cell == index(S.working, row, col)
           muts == mutations(cell, S.working.cols[col])
       IN  {[S EXCEPT !.stack = Append(@, Frame(row, col, order, cell))] :
              order \in IF max # SIZE_MAX THEN Shuffles(muts) ELSE {muts}}

\* The end of an iteration without "cell = copy" (line 191).
RECURSIVE Resume_no_restore(_)
Resume_no_restore(S) ==
  IF S.stack = <<>> \/ S.err # "" THEN S
  ELSE LET f == Top(S)
       IN  IF f.i < Len(f.muts) THEN [S EXCEPT !.stack[Len(S.stack)].i = f.i + 1]
           ELSE Resume_no_restore(Pop(S))
\* The end of an iteration of the loop of the top frame (line 191), up to
\* the next iteration of a loop: the cell gets its copy back; after the
\* last mutation the call returns into the iteration of its caller.
RECURSIVE Resume(_)
Resume(S) ==
  IF S.stack = <<>> \/ S.err # "" THEN S
  ELSE LET f == Top(S)
           restored == [S EXCEPT !.working = SetCell(@, f.row, f.col, f.copy)]
       IN  IF f.i < Len(f.muts) THEN [restored EXCEPT !.stack[Len(S.stack)].i = f.i + 1]
           ELSE Resume(Pop(restored))
\* A call made from an iteration: the iteration ends when it has returned.
Called(S, after) == {IF Len(T.stack) = Len(S.stack) THEN Resume(T) ELSE T : T \in after}

\* The pruning test (line 179), from the score on.  The conditional's third
\* operand is "minimal_distortion(...) <= best", so under metric c the left
\* side of && is the certainty score itself, true when it is not 0.
Pruned(S, col, score) ==
  LET first == IF m = "c" THEN score.v # Zero ELSE RLeq(score.v, S.best)
      tested == [valid |-> TRUE, w |-> S.working, col |-> col, best |-> S.best,
                 advanced |-> FALSE]
  IN  IF score.err # "" THEN [S EXCEPT !.g = score.g, !.err = score.err]
      ELSE IF ~first THEN [S EXCEPT !.g = score.g, !.prune = tested]
      ELSE CHOOSE T \in {[S EXCEPT !.g = ka.g, !.err = ka.err,
                                   !.prune = [tested EXCEPT !.advanced = ka.v]] :
                         ka \in {k_anonymity(S.working, original, k, col, score.g)}} : TRUE
PruneTest(S, col) ==
  CHOOSE T \in {Pruned(S, col, score) :
                score \in {IF m = "c" THEN certainty_score(S.working, original, S.g)
                           ELSE minimal_distortion(S.working, original, S.g)}} : TRUE

\* The iteration without the test of line 157.
Iteration_no_limit(S) ==
  LET f == Top(S)
      counted == [S EXCEPT !.states = @ + 1]
      changed == [counted EXCEPT !.working = SetCell(@, f.row, f.col, f.muts[f.i])]
  IN  IF f.row # changed.working.rows
      THEN Called(changed, anonymize_worker(changed, f.row + 1, f.col))
      ELSE UNION {IF tested.err # "" \/ ~tested.prune.advanced THEN {Resume(tested)}
                  ELSE IF f.col = columns(tested.working) THEN {Resume(score_results(tested))}
                  ELSE Called(tested, anonymize_worker(tested, 1, f.col + 1)) :
                  tested \in {PruneTest(changed, f.col)}}

\* One iteration of the loop of the top frame (lines 154-192).
Iteration(S) ==
  LET f == Top(S)
      counted == [S EXCEPT !.states = @ + 1]
      changed == [counted EXCEPT !.working = SetCell(@, f.row, f.col, f.muts[f.i])]
  IN  IF max # SIZE_MAX /\ counted.states >= max THEN {Resume(Pop(counted))}
      ELSE IF f.row # changed.working.rows
      THEN Called(changed, anonymize_worker(changed, f.row + 1, f.col))
      ELSE \* the last row of the column
           UNION {IF tested.err # "" \/ ~tested.prune.advanced THEN {Resume(tested)}
                  ELSE IF f.col = columns(tested.working) THEN {Resume(score_results(tested))}
                  ELSE Called(tested, anonymize_worker(tested, 1, f.col + 1)) :
                  tested \in {PruneTest(changed, f.col)}}

\* --iterations is SIZE_MAX (-1) or at most MaxStates.
MaxStates == 3
MGKinds == {"Gender", "Job", "Name"}

InitMG ==
  /\ \E o \in TablesOf(MGKinds, {1}) : Loaded(o)
  /\ k = 2
  /\ m = "md"
  /\ pc = "idle"
  /\ cache = TRUE

\* The worker leaves S: the fields, and where the thread is.
WorkerLeaves(S) ==
  /\ working' = S.working
  /\ states' = S.states
  /\ tables' = S.tables
  /\ view' = S.view
  /\ best' = S.best
  /\ stack' = S.stack
  /\ prune' = S.prune
  /\ SetG(S.g)
  /\ pc' = IF S.err # "" THEN "threw" ELSE IF S.stack = <<>> THEN "stats" ELSE "worker"

\* MinGen::anonymize(k_val, m_val, iters) up to the start of the worker
\* (lines 207-231)
Anonymize ==
  /\ pc = "idle"
  /\ \E k_val \in 1..MaxK, m_val \in {"md", "c"}, iters \in {SIZE_MAX} \cup 1..MaxStates :
       /\ k' = k_val
       /\ m' = m_val
       /\ max' = iters
       /\ \E ka \in {k_anonymity(original, original, k_val, columns(original), G)} :
            /\ SetG(ka.g)
            /\ pc' = IF ka.v THEN "already" ELSE "started"
  /\ working' = original
  /\ UNCHANGED <<original, states, tables, view, best, stack, prune, res, prior>>
  /\ UNCHANGED gaVars

\* anonymize_worker(0, 0), called or launched by anonymize (lines 234, 240)
StartWorker ==
  /\ pc = "started"
  /\ \E S \in anonymize_worker(MGState, 1, 1) : WorkerLeaves(S)
  /\ UNCHANGED <<original, k, m, max, res, prior>>
  /\ UNCHANGED gaVars

\* One iteration of the innermost loop of the worker
WorkerStep ==
  /\ pc = "worker"
  /\ \E S \in Iteration(MGState) : WorkerLeaves(S)
  /\ UNCHANGED <<original, k, m, max, res, prior>>
  /\ UNCHANGED gaVars

\* The worker has returned: print_stats has printed tables, and reset()
\* (lines 278-279, 94-99)
Reset ==
  /\ pc = "stats"
  /\ pc' = "done"
  /\ max' = SIZE_MAX
  /\ states' = 0
  /\ tables' = <<>>
  /\ best' = INFINITY
  /\ UNCHANGED <<original, working, k, m, view, stack, prune, metricVars, res, prior>>
  /\ UNCHANGED gaVars

NextMG == Anonymize \/ StartWorker \/ WorkerStep \/ Reset
SpecMG == InitMG /\ [][NextMG]_vars

(***************************************************************************)
(* C1, C2, C3: what MinGen records, returns, and prunes.                   *)
(***************************************************************************)
KAnonymous(t) == k_anonymity(t, original, k, columns(original), Globals(FALSE)).v

\* C1: every table in the tied-best set of MinGen is k-anonymous over all
\* columns, for any table, k, metric and max.
C1_RecordedAreKAnonymous == \A i \in DOMAIN tables : KAnonymous(tables[i])

\* The same, for the tables that have a quasi column.
HasQuasi(o) == \E c \in 1..columns(o) : o.cols[c].sensitivity = "quasi"
C1_WithQuasiColumn == HasQuasi(original) => C1_RecordedAreKAnonymous

\* The brute-force enumerator: of the tables that take one mutation of the
\* original cell for every quasi cell and are k-anonymous, those of the
\* least score.
ScoredAnonymous ==
  {[t |-> t, s |-> Score(m, t, original, Globals(FALSE)).v] :
     t \in {t \in Generalisations(original) : KAnonymous(t)}}
Reference ==
  CHOOSE R \in {{p.t : p \in {p \in SA : \A q \in SA : RLeq(p.s, q.s)}} :
                SA \in {ScoredAnonymous}} : TRUE

\* C2: with max unbounded, the tables MinGen returns are, as a multiset,
\* the tables of the brute-force enumerator, for both metrics.  Stated for
\* the searches of a table that has a quasi column (without one the search
\* records the original table, which is the case of C1).
C2_EqualsBruteForce ==
  (pc = "stats" /\ max = SIZE_MAX /\ HasQuasi(original)) =>
    \A R \in {Reference} : Range_(tables) = R /\ Len(tables) = Cardinality(R)

\* The same, for metric md.
C2_MetricMD == m = "md" => C2_EqualsBruteForce

\* C3: after the last row of a quasi column, the search advances exactly
\* when the score of the working table under the metric is <= best and
\* k_anonymity(working, original, k, col) holds, under md and under c.
C3_AdvanceIsConjunction ==
  prune.valid =>
    (prune.advanced <=>
       /\ RLeq(Score(m, prune.w, original, Globals(FALSE)).v, prune.best)
       /\ k_anonymity(prune.w, original, k, prune.col, Globals(FALSE)).v)

\* The same, for metric md.
C3_MetricMD == m = "md" => C3_AdvanceIsConjunction

(***************************************************************************)
(* C14: the limit on the states.                                           *)
(***************************************************************************)
\* The cells of working that a step changes get back the copy a frame of
\* the stack holds of them (line 191): no mutation is assigned.
OnlyRestored ==
  \A r \in 1..working.rows, c \in 1..columns(working) :
    index(working', r, c) # index(working, r, c) =>
      \E i \in DOMAIN stack :
        stack[i].row = r /\ stack[i].col = c /\ stack[i].copy = index(working', r, c)
LimitReached == pc = "worker" /\ max # SIZE_MAX /\ states >= max

\* C14: with a finite max, once states has reached max no step of the
\* worker assigns a mutation to a cell, tests or scores a table or changes
\* the tied-best set, the best score or the view; the recursion unwinds
\* and the tables accumulated so far are what anonymize reports.
C14_NothingAfterLimit ==
  [][LimitReached =>
       /\ OnlyRestored
       /\ tables' = tables /\ best' = best /\ view' = view /\ prune' = prune
       /\ Len(stack') < Len(stack)
       /\ pc' \in {"worker", "stats"}]_vars

\* The worker unwinds at the limit with a table in the tied-best set.
C14_Witness == LimitReached /\ Len(stack) >= 2 /\ tables # <<>>

(***************************************************************************)
(* table.h: the constructor and mutations on the columns a file can hold.  *)
(* A field of the file may be the suppression symbol, and a field of a     *)
(* string column may be empty.                                             *)
(***************************************************************************)
TKinds == {"Gender", "Job", "Age", "AgeH"}
FileAlphabet(kind) ==
  Alphabet(kind) \cup {Star} \cup (IF kind \in {"Gender", "Job"} THEN {EmptyStr} ELSE {})
\* The column when the rows of the file are read, before line 380.
RawOf(kind, data) ==
  [MakeColumn(kind, 1, data) EXCEPT !.ranges = {}, !.range = RangeOf(0, 0)]

InitTable ==
  /\ \E kind \in TKinds, n \in 1..MaxCells :
       \E data \in [1..n -> FileAlphabet(kind)] : Loaded(Table(<<RawOf(kind, data)>>))
  /\ k = 2
  /\ m = "md"
  /\ cache = TRUE
  /\ pc = "read"

\* The end of the constructor: generate_ranges for every column (line 380)
Construct ==
  /\ pc = "read"
  /\ pc' = "constructed"
  /\ \E t \in {[original EXCEPT !.cols = [c \in 1..columns(original) |->
                                           generate_ranges(original.cols[c])]]} :
       /\ original' = t
       /\ working' = t
  /\ UNCHANGED <<k, m, max, states, tables, view, best, stack, prune, metricVars, res,
                 prior, gaVars>>

\* std::stoi(value) of line 146 throws for a cell that is not a number
stoi_throws(value, col) == col.t = "integer" /\ ~IsBracket(value) /\ value.tag # "i"

\* Table::mutations(value, col, false) for a cell of the table
CallMutations ==
  /\ pc = "constructed"
  /\ \E r \in 1..original.rows, c \in 1..columns(original) :
       \E value \in {index(original, r, c)} :
         res' = IF stoi_throws(value, original.cols[c])
                THEN [op |-> "mutations", value |-> value, c |-> c, v |-> <<>>,
                      err |-> "invalid_argument"]
                ELSE [op |-> "mutations", value |-> value, c |-> c,
                      v |-> mutations(value, original.cols[c]), err |-> ""]
  /\ UNCHANGED <<original, working, k, m, max, states, tables, view, best, stack, pc,
                 prune, metricVars, prior, gaVars>>

NextTable == Construct \/ CallMutations
SpecTable == InitTable /\ [][NextTable]_vars

(***************************************************************************)
(* C19: what mutations returns.                                            *)
(***************************************************************************)
\* C19: the mutations of a cell v of a quasi column that has no hierarchy
\* and is not integer contain v, and the mutations of any cell of any
\* column hold the suppression symbol exactly once, also when the cell is
\* the suppression symbol.
C19_MutationCoverage ==
  (res.op = "mutations" /\ res.err = "") =>
    /\ \A col \in {original.cols[res.c]} :
         (col.sensitivity = "quasi" /\ DomainEmpty(col.graph) /\ col.t # "integer")
           => res.value \in Range_(res.v)
    /\ SeqCount(res.v, Star) = 1

\* The same, for the cells that are neither suppressed nor empty.
C19_NamedCells ==
  (res.op = "mutations" /\ res.value \notin {Star, EmptyStr}) => C19_MutationCoverage

(***************************************************************************)
(* C20: the ranges of an integer column.                                   *)
(***************************************************************************)
\* The values of the cells of a column that are not suppressed.
ValuesOf(col) == {atoi(col.data[i]) : i \in {i \in DOMAIN col.data : col.data[i] # Star}}
SetMin(S) == CHOOSE x \in S : \A y \in S : x <= y
SetMax(S) == CHOOSE x \in S : \A y \in S : x >= y
PairRanges(col) == {RangeOf(a, b) : a, b \in ValuesOf(col)} \ {RangeOf(a, a) : a \in ValuesOf(col)}
Constructed == pc = "constructed"

\* C20: after construction the ranges of an integer column are the ranges
\* of all pairs of different values of its data that are not suppressed,
\* without the minimal range of the column; range is [min(data),
\* max(data)]; the minimal range is not in ranges.
C20_RangesOfAllPairs ==
  Constructed =>
    \A c \in 1..columns(original) : \A col \in {original.cols[c]} :
      (col.t = "integer" /\ ValuesOf(col) # {}) =>
        /\ col.range = RangeOf(SetMin(ValuesOf(col)), SetMax(ValuesOf(col)))
        /\ col.ranges = PairRanges(col) \ {col.range}
        /\ col.range \notin col.ranges

\* C20 as amended: the same for the columns of two or more different
\* values; a column of fewer keeps the range [0-0] and has no ranges.
C20_TwoOrMoreValues ==
  Constructed =>
    \A c \in 1..columns(original) : \A col \in {original.cols[c]} :
      col.t = "integer" =>
        IF Cardinality(ValuesOf(col)) >= 2
        THEN /\ col.range = RangeOf(SetMin(ValuesOf(col)), SetMax(ValuesOf(col)))
             /\ col.ranges = PairRanges(col) \ {col.range}
             /\ col.range \notin col.ranges
        ELSE col.range = RangeOf(0, 0) /\ col.ranges = {}

\* A constructed integer column of three different values, one suppressed
\* cell apart: its ranges are the two narrower than the minimal range.
C20_Witness ==
  /\ Constructed
  /\ \E c \in 1..columns(original) :
       /\ original.cols[c].t = "integer"
       /\ Cardinality(ValuesOf(original.cols[c])) = 3
       /\ Cardinality(original.cols[c].ranges) = 2
       /\ Star \in Range_(original.cols[c].data)

(***************************************************************************)
(* ga.h: GeneticAlgorithm.  ga holds the fields of the object, the locals  *)
(* of anonymize_worker and ga.pc, the place of the worker; poll holds the  *)
(* locals of anonymize and poll.pc, the place of the thread that called    *)
(* it.  generation and children are std::multiset<instance> in their       *)
(* order: descending scores, equal scores in the order of insertion.       *)
(***************************************************************************)
instance(s_, table_) == [s |-> s_, table |-> table_]
\* multiset::emplace under score_lambda (a.s > b.s): behind the instances
\* whose score is not smaller
emplace(gen, inst) ==
  LET p == Cardinality({i \in DOMAIN gen : ~RLess(gen[i].s, inst.s)})
  IN  SubSeq(gen, 1, p) \o <<inst>> \o SubSeq(gen, p + 1, Len(gen))
\* The lambda generate_return (lines 215-223): the tables of the instances
\* tied with the first.
generate_return(gen) ==
  [i \in 1..Cardinality({i \in DOMAIN gen : gen[i].s = gen[1].s}) |-> gen[i].table]
\* std::uniform_int_distribution<>(lo, hi)
Distribution(lo_, hi_) == [lo |-> lo_, hi |-> hi_]
Draws(dist) == dist.lo..dist.hi

\* The object after GeneticAlgorithm(o) (lines 92-122, 292-294)
NewGA(o) ==
  [pc |-> "constructed", k |-> 2, best |-> INFINITY, m |-> "md", max |-> 1000,
   population |-> 100, states |-> 0, cutoff |-> 10, m_rate |-> 10, cells |-> Cells(o),
   iter |-> 0, roll |-> Distribution(0, 2147483647), mutations |-> Distribution(0, 100 + 10),
   view |-> instance(Zero, Table(<<>>)), generation |-> <<>>,
   tenth |-> 0, shadow |-> Distribution(0, 0), children |-> <<>>, offspring |-> 0,
   x |-> 0, y |-> 0, current |-> instance(Zero, Table(<<>>)),
   tables |-> <<>>]

\* update_view (lines 136-140), under the lock
update_view(a, update) == [a EXCEPT !.view = update, !.best = update.s]

\* The cell of combine with "fc.data[row] = sc.data[0]" at line 202.
CombinedCell_first_row(a, first, second, r, c) ==
  (IF \E mutate \in Draws(a.mutations) : mutate > 100
   THEN Range_(mutations(index(original, r, c), original.cols[c])) ELSE {})
  \cup (IF \E mutate \in Draws(a.mutations) : mutate < 50
        THEN {index(second, 1, c)} ELSE {})
  \cup (IF \E mutate \in Draws(a.mutations) : mutate >= 50 /\ mutate <= 100
        THEN {index(first, r, c)} ELSE {})
\* combine(first, second) (lines 183-205): the tables first can become.
\* Every cell of a quasi column draws mutate from mutations: above 100 the
\* cell becomes the head of the shuffled mutations of the original cell,
\* below 50 the cell of second, else it stays.
CombinedCell(a, first, second, r, c) ==
  (IF \E mutate \in Draws(a.mutations) : mutate > 100
   THEN Range_(mutations(index(original, r, c), original.cols[c])) ELSE {})
  \cup (IF \E mutate \in Draws(a.mutations) : mutate < 50
        THEN {index(second, r, c)} ELSE {})
  \cup (IF \E mutate \in Draws(a.mutations) : mutate >= 50 /\ mutate <= 100
        THEN {index(first, r, c)} ELSE {})
\* The loops of combine without the test of line 188.
RECURSIVE CombineFrom_all_columns(_, _, _, _, _)
CombineFrom_all_columns(a, T, second, r, c) ==
  IF c > columns(original) THEN T
  ELSE IF r > original.rows THEN CombineFrom_all_columns(a, T, second, 1, c + 1)
  ELSE CombineFrom_all_columns(a, UNION {{SetCell(t, r, c, v) :
                                            v \in CombinedCell(a, t, second, r, c)} : t \in T},
                               second, r + 1, c)
\* The loops of combine from cell (r, c) on: the tables of T with that cell
\* and the later ones assigned.
RECURSIVE CombineFrom(_, _, _, _, _)
CombineFrom(a, T, second, r, c) ==
  IF c > columns(original) THEN T
  ELSE IF r > original.rows THEN CombineFrom(a, T, second, 1, c + 1)
  ELSE CombineFrom(a, UNION {IF t.cols[c].sensitivity # "quasi" THEN {t}
                             ELSE {SetCell(t, r, c, v) :
                                     v \in CombinedCell(a, t, second, r, c)} : t \in T},
                   second, r + 1, c)
combine(a, first, second) == CombineFrom(a, {first}, second, 1, 1)

\* The arguments of the runs: --k, --iterations, --population and
\* --mutation-rate.  With k = 1 and one row no two different tables have
\* the same fitness, so a generation is given by how many copies of each
\* table it holds.
SmallGenerations == 3
MaxGenerations == 10
GAIterations == {SmallGenerations, MaxGenerations}
GAPopulations == {10, 15, 20}
GARates == {0, 10}
\* The runs: a population of two times cutoff, the one that has offspring,
\* runs MaxGenerations generations at the default rate.
GARuns ==
  {run \in [iters : GAIterations, p_val : GAPopulations, mut_rate : GARates] :
     run.p_val = 20 => (run.iters = MaxGenerations /\ run.mut_rate = 10)}
\* One row, one quasi column: the file "Gender\nM".
GATables == {Table(<<MakeColumn("Gender", 1, <<Str("M")>>)>>)}

InitGA ==
  /\ \E o \in GATables : LoadedTable(o) /\ ga = NewGA(o)
  /\ k = 1
  /\ m = "md"
  /\ cache = FALSE
  /\ pc = "ga"
  /\ \E st \in BOOLEAN :
       poll = [pc |-> "idle", single_thread |-> st, arg |-> instance(Zero, Table(<<>>)),
               sample |-> instance(Zero, Table(<<>>))]

\* What a step of the genetic algorithm leaves alone.
GAFrame == UNCHANGED <<original, working, k, m, max, states, tables, view, best, stack, pc,
                       prune, res, prior>>

\* GeneticAlgorithm::anonymize, lines 314-318
GAAnonymize ==
  /\ ga.pc = "constructed"
  /\ \E k_val \in {1}, m_val \in {"md"}, run \in GARuns :
       ga' = [ga EXCEPT !.pc = "seeding", !.k = k_val, !.m = m_val,
                        !.max = IF run.iters # SIZE_MAX THEN run.iters ELSE @,
                        !.population = run.p_val, !.m_rate = run.mut_rate]
  /\ UNCHANGED <<metricVars, poll>>
  /\ GAFrame

\* One round of the loop of lines 322-326: a random table and its fitness
Seed ==
  /\ ga.pc = "seeding"
  /\ Len(ga.generation) < ga.population
  /\ \E i \in Generalisations(original) :
       \E fit \in {fitness(i, original, ga.k, ga.m, G)} :
         /\ ga' = [ga EXCEPT !.generation = emplace(@, instance(fit.v, i))]
         /\ SetG(fit.g)
  /\ UNCHANGED poll
  /\ GAFrame

\* Lines 327-347: roll is set, and the worker is called or launched.
Launch ==
  /\ ga.pc = "seeding"
  /\ Len(ga.generation) = ga.population
  /\ ga' = [ga EXCEPT !.pc = "worker", !.roll = Distribution(0, ga.cutoff)]
  /\ poll' = [poll EXCEPT !.pc = IF poll.single_thread THEN "blocked" ELSE "read"]
  /\ UNCHANGED metricVars
  /\ GAFrame

\* anonymize_worker, lines 227-230
WorkerEnter ==
  /\ ga.pc = "worker"
  /\ ga' = [ga EXCEPT !.pc = "loop", !.tenth = ga.max \div 10, !.iter = 0]
  /\ UNCHANGED <<metricVars, poll>>
  /\ GAFrame

\* (iter + 1) % tenth == 0 (line 232); the remainder by 0 is undefined: the
\* process traps, or the test comes out either way.
TenthTest(a) ==
  IF a.tenth = 0 THEN {"trap", "taken", "skipped"}
  ELSE IF (a.iter + 1) % a.tenth = 0 THEN {"taken"} ELSE {"skipped"}
\* Lines 241-244; the declaration of line 242 makes a local mutations and
\* leaves the member alone.
Escalate(a) ==
  LET doubled == [a EXCEPT !.m_rate = 2 * @]
      shadowed == [doubled EXCEPT !.shadow = Distribution(0, 100 + doubled.m_rate)]
  IN  update_view(shadowed, shadowed.generation[1])

\* The head of a generation (lines 230-254)
GenerationStart ==
  /\ ga.pc = "loop"
  /\ ga.iter < ga.max
  /\ \E test \in TenthTest(ga) :
       ga' = IF test = "trap" THEN [ga EXCEPT !.pc = "crashed"]
             ELSE LET a == IF test = "taken" THEN Escalate(ga) ELSE ga
                  IN  [a EXCEPT !.pc = "x", !.best = a.generation[1].s, !.children = <<>>,
                                !.offspring = (a.population - a.cutoff) \div a.cutoff,
                                !.x = 0]
  /\ UNCHANGED <<metricVars, poll>>
  /\ GAFrame

\* Lines 257-262 without "children.emplace(current)" (line 261).
ElitePick_no_copy ==
  /\ ga.pc = "x"
  /\ ga.x < ga.cutoff
  /\ ga.x < Len(ga.generation)
  /\ \E current \in {ga.generation[ga.x + 1]} :
       ga' = [ga EXCEPT !.current = current,
                        !.states = @ + 1, !.y = 0,
                        !.pc = IF ga.offspring > 0 THEN "y" ELSE "x",
                        !.x = IF ga.offspring > 0 THEN @ ELSE @ + 1]
  /\ UNCHANGED <<metricVars, poll>>
  /\ GAFrame
\* One of the best joins the children (lines 257-262)
ElitePick ==
  /\ ga.pc = "x"
  /\ ga.x < ga.cutoff
  /\ ga.x < Len(ga.generation)
  /\ \E current \in {ga.generation[ga.x + 1]} :
       ga' = [ga EXCEPT !.current = current, !.children = emplace(@, current),
                        !.states = @ + 1, !.y = 0,
                        !.pc = IF ga.offspring > 0 THEN "y" ELSE "x",
                        !.x = IF ga.offspring > 0 THEN @ ELSE @ + 1]
  /\ UNCHANGED <<metricVars, poll>>
  /\ GAFrame

\* One offspring (lines 265-275): the partner is the instance roll draws,
\* the child is current combined with it.
Partners(a) == {r \in Draws(a.roll) : r < Len(a.generation)}
MakeChild ==
  /\ ga.pc = "y"
  /\ \E child \in UNION {combine(ga, ga.current.table, second) :
                          second \in {ga.generation[r + 1].table : r \in Partners(ga)}} :
       \E fit \in {fitness(child, original, ga.k, ga.m, G)} :
         /\ ga' = [ga EXCEPT !.states = @ + 1,
                             !.current = instance(fit.v, child),
                             !.children = emplace(@, instance(fit.v, child)),
                             !.y = IF ga.y + 1 < ga.offspring THEN @ + 1 ELSE 0,
                             !.pc = IF ga.y + 1 < ga.offspring THEN "y" ELSE "x",
                             !.x = IF ga.y + 1 < ga.offspring THEN @ ELSE @ + 1]
         /\ SetG(fit.g)
  /\ UNCHANGED poll
  /\ GAFrame

\* generation = children (line 279) and ++iter
Replace ==
  /\ ga.pc = "x"
  /\ ga.x >= ga.cutoff
  /\ ga' = [ga EXCEPT !.pc = "loop", !.generation = ga.children, !.iter = @ + 1]
  /\ UNCHANGED <<metricVars, poll>>
  /\ GAFrame

\* The loop is over: generate_return(generation) (line 283)
WorkerReturn ==
  /\ ga.pc = "loop"
  /\ ga.iter >= ga.max
  /\ ga' = [ga EXCEPT !.pc = "returned", !.tables = generate_return(ga.generation)]
  /\ UNCHANGED <<metricVars, poll>>
  /\ GAFrame

\* The thread of anonymize while the worker runs.  Line 349 reads
\* *generation.begin() and then calls update_view with it.
Running == ga.pc \in {"worker", "loop", "x", "y", "returned"}
MainRead ==
  /\ poll.pc = "read"
  /\ Running
  /\ poll' = [poll EXCEPT !.pc = "publish", !.arg = ga.generation[1]]
  /\ UNCHANGED <<ga, metricVars>>
  /\ GAFrame
MainPublish ==
  /\ poll.pc = "publish"
  /\ Running
  /\ ga' = update_view(ga, poll.arg)
  /\ poll' = [poll EXCEPT !.pc = "sample"]
  /\ UNCHANGED metricVars
  /\ GAFrame
\* sample = get_view() (line 350)
MainSample ==
  /\ poll.pc = "sample"
  /\ Running
  /\ poll' = [poll EXCEPT !.pc = "poll", !.sample = ga.view]
  /\ UNCHANGED <<ga, metricVars>>
  /\ GAFrame
\* One round of the loop of lines 354-371 while the worker is not ready
Poll ==
  /\ poll.pc = "poll"
  /\ ga.pc \in {"worker", "loop", "x", "y"}
  /\ poll' = [poll EXCEPT !.sample = IF poll.sample.s # ga.best THEN ga.view ELSE @]
  /\ UNCHANGED <<ga, metricVars>>
  /\ GAFrame
\* Lines 342, 372-387: the tables of the worker, the score of the first,
\* print_stats and reset
Join ==
  /\ poll.pc \in {"blocked", "poll"}
  /\ ga.pc = "returned"
  /\ poll' = [poll EXCEPT !.pc = "done"]
  /\ ga' = [ga EXCEPT !.pc = "reset", !.best = INFINITY, !.states = 0, !.iter = 0]
  /\ UNCHANGED metricVars
  /\ GAFrame

NextGA ==
  \/ GAAnonymize \/ Seed \/ Launch \/ WorkerEnter \/ GenerationStart \/ ElitePick
  \/ MakeChild \/ Replace \/ WorkerReturn
  \/ MainRead \/ MainPublish \/ MainSample \/ Poll \/ Join
SpecGA == InitGA /\ [][NextGA]_vars

(***************************************************************************)
(* C12, C15, C16, C17, C18: the generations of the genetic algorithm.      *)
(***************************************************************************)
\* C12: within a run the best scores published to the snapshot are
\* monotone: no step of a MinGen search raises best, and no step of the
\* genetic algorithm lowers the fitness of the view.
C12_MonotoneBest ==
  [][/\ pc \in {"started", "worker"} => RLeq(best', best)
     /\ (ga.pc # "none" /\ ga'.pc # "none") => RLeq(ga.view.s, ga'.view.s)]_vars

\* The same, for the steps of MinGen and of the worker of the genetic
\* algorithm (the view that line 349 publishes from the calling thread
\* apart).
C12_WorkerSteps ==
  [][/\ pc \in {"started", "worker"} => RLeq(best', best)
     /\ (ga.pc # "none" /\ ga'.pc # "none" /\ poll' = poll)
          => RLeq(ga.view.s, ga'.view.s)]_vars

\* C15: for every population P >= cutoff the generation holds exactly P
\* individuals after every generation step.
C15_PopulationKept ==
  ga.pc \in {"worker", "loop", "x", "y", "returned"} =>
    Len(ga.generation) = ga.population

\* The same, for the populations that are multiples of cutoff.
C15_MultipleOfCutoff ==
  (ga.pc # "none" /\ ga.population % ga.cutoff = 0) => C15_PopulationKept

\* C16: the roll of a cell in the recombination is drawn from 0..100+m for
\* the current mutation rate m, which starts at --mutation-rate and doubles
\* every max/10 generations.
C16_RollFollowsRate == ga.pc = "y" => ga.mutations = Distribution(0, 100 + ga.m_rate)

\* C17: the partner of an offspring is one of the cutoff best of the
\* generation: every index roll can give is in 0..cutoff-1.
C17_PartnerIsElite == ga.pc = "y" => \A r \in Partners(ga) : r <= ga.cutoff - 1

\* C18: for every max >= 1 the worker runs max generation steps and then
\* returns a result that is not empty; it does not stop before.
C18_RunsMaxGenerations ==
  /\ ga.pc # "crashed"
  /\ ga.pc = "returned" => (ga.iter = ga.max /\ ga.tables # <<>>)

\* The same, for the limits of ten generations or more.
C18_TenOrMore == (ga.pc # "none" /\ ga.max >= 10) => C18_RunsMaxGenerations

(***************************************************************************)
(* mg.h: MinGen::anonymize with the worker in the background (lines        *)
(* 237-273).  The worker is the thread of std::async; the thread that      *)
(* called anonymize polls best and view every 17 ms.  poll holds the       *)
(* locals of the caller (sample, old_best, what the last round printed)    *)
(* and, while the worker is inside score_results between the assignment    *)
(* of best (line 121) and update_view (line 123), the state the worker     *)
(* reaches at the end of its iteration.                                    *)
(***************************************************************************)
PollKinds == {"Gender", "Job"}
\* The tables of the polled searches: one column of 2..PollRows rows
PollRows == 3
PollTables == UNION {TablesOfShape(PollKinds, {1}, n, 1) : n \in 2..PollRows}
NoShown == [valid |-> FALSE]
NoPending == [valid |-> FALSE]
\* A bool converted to float for a comparison, and a float stored in a bool
BoolAsFloat(b) == IF b THEN Rat(1, 1) ELSE Zero
FloatAsBool(f) == f # Zero

InitPoll ==
  /\ \E o \in PollTables : LoadedTable(o)
  /\ k = 2
  /\ m = "md"
  /\ pc = "idle"
  /\ cache = FALSE
  /\ ga = NoGA
  /\ poll = [pc |-> "idle", sample |-> Table(<<>>), old_best |-> FALSE,
             shown |-> NoShown, pending |-> NoPending]

\* std::async and the locals of the caller (lines 240-246): bool old_best
\* is initialised with INFINITY.
LaunchWorker ==
  /\ pc = "started"
  /\ poll.pc = "idle"
  /\ poll' = [poll EXCEPT !.pc = "wait", !.sample = original,
                          !.old_best = FloatAsBool(INFINITY)]
  /\ UNCHANGED <<mgVars, metricVars, res, prior, ga>>

\* One step of the worker thread: anonymize_worker(0, 0) up to its first
\* loop, or one iteration of the innermost loop.  When score_results finds
\* a better score the step ends at line 121, with states and best written.
BackgroundStep ==
  /\ pc \in {"started", "worker"}
  /\ poll.pc # "idle"
  /\ ~poll.pending.valid
  /\ \E S \in IF pc = "started" THEN anonymize_worker(MGState, 1, 1) ELSE Iteration(MGState) :
       IF S.err = "" /\ S.best # best
       THEN /\ best' = S.best
            /\ states' = S.states
            /\ poll' = [poll EXCEPT !.pending = [valid |-> TRUE, S |-> S]]
            /\ UNCHANGED <<working, tables, view, stack, pc, prune, metricVars>>
       ELSE /\ WorkerLeaves(S)
            /\ poll' = poll
  /\ UNCHANGED <<original, k, m, max, res, prior, ga>>

\* The rest of score_results and of the iteration (lines 122-127, 191)
BackgroundPublish ==
  /\ poll.pending.valid
  /\ WorkerLeaves(poll.pending.S)
  /\ poll' = [poll EXCEPT !.pending = NoPending]
  /\ UNCHANGED <<original, k, m, max, res, prior, ga>>

\* The future is not ready: "if (old_best != best)" (lines 247, 254)
PollCompare ==
  /\ poll.pc = "wait"
  /\ pc \in {"started", "worker"}
  /\ poll' = [poll EXCEPT !.pc = IF BoolAsFloat(poll.old_best) # best THEN "refresh"
                                 ELSE "print"]
  /\ UNCHANGED <<mgVars, metricVars, res, prior, ga>>
\* sample = get_view() (line 255)
PollRefresh ==
  /\ poll.pc = "refresh"
  /\ poll' = [poll EXCEPT !.pc = "remember", !.sample = view]
  /\ UNCHANGED <<mgVars, metricVars, res, prior, ga>>
\* old_best = best (line 257)
PollRemember ==
  /\ poll.pc = "remember"
  /\ poll' = [poll EXCEPT !.pc = "print", !.old_best = FloatAsBool(best)]
  /\ UNCHANGED <<mgVars, metricVars, res, prior, ga>>
\* The round prints best and then the sample (lines 263, 271)
PollPrint ==
  /\ poll.pc = "print"
  /\ poll' = [poll EXCEPT !.pc = "wait",
                          !.shown = [valid |-> TRUE, best |-> best, sample |-> poll.sample]]
  /\ UNCHANGED <<mgVars, metricVars, res, prior, ga>>
\* The future is ready: the loop ends, print_stats and reset (lines 247,
\* 278-279)
PollReset ==
  /\ poll.pc = "wait"
  /\ Reset

NextPoll ==
  \/ Anonymize \/ LaunchWorker \/ BackgroundStep \/ BackgroundPublish
  \/ PollCompare \/ PollRefresh \/ PollRemember \/ PollPrint \/ PollReset
SpecPoll == InitPoll /\ [][NextPoll]_vars

(***************************************************************************)
(* C13: what the polling caller holds.                                     *)
(***************************************************************************)
\* The score b and the table t are one snapshot of the search: the one of
\* construction, or a table and its score.
Snapshot(b, t) ==
  IF t = Table(<<>>) THEN b = INFINITY
  ELSE b # INFINITY /\ Score(m, t, original, Globals(FALSE)).v = b

\* C13: in background mode, under every interleaving, the best score and
\* the table that the caller holds after a round of its loop belong to the
\* same published snapshot.
C13_SameSnapshot ==
  poll.pc # "none" /\ poll.shown.valid => Snapshot(poll.shown.best, poll.shown.sample)

\* C13, the second half: a round that does not refresh the sample, while
\* the worker is not inside score_results, holds the published view.
C13_RefreshedLater ==
  [][(poll.pc = "wait" /\ poll'.pc = "print" /\ ~poll.pending.valid)
       => poll.sample = view]_vars

(***************************************************************************)
(* The worked scenarios: exhaustive MinGen searches of three small files.  *)
(***************************************************************************)
\* S1: name,age with sensitivities i,q, age integer, no hierarchy
S1_Table ==
  Table(<<MakeColumn("Name", 1, <<Str("Ann"), Str("Bob")>>),
          MakeColumn("Age", 1, <<Num(25), Num(27)>>)>>)
JobRows == <<Str("Mechanic"), Str("Plumber"), Str("Doctor"), Str("Lawyer")>>
\* S2: the column Job with the hierarchy of JobDomain
S2_Table == Table(<<Column("string", 1, "quasi", JobDomain, JobRows)>>)
\* S3: the same file without the hierarchy
S3_Table == Table(<<Column("string", 1, "quasi", NoDomain, JobRows)>>)
ScenarioTables == {S1_Table, S2_Table, S3_Table}

InitScenario ==
  /\ \E o \in ScenarioTables : Loaded(o)
  /\ k = 2
  /\ m = "md"
  /\ pc = "idle"
  /\ cache \in BOOLEAN

\* main with --mode=mg and no --iterations (main.cpp:44, 85-86)
AnonymizeExhaustive ==
  /\ max' = SIZE_MAX
  /\ Anonymize

NextScenario == AnonymizeExhaustive \/ StartWorker \/ WorkerStep \/ Reset
SpecScenario == InitScenario /\ [][NextScenario]_vars

(***************************************************************************)
(* C21, C22, C23: the results of the scenarios.                            *)
(***************************************************************************)
\* The search of table o with k = 2 and metric mm has returned.
Returned(o, mm) == pc = "stats" /\ original = o /\ k = 2 /\ m = mm
\* Column c of table t holds the cells of data.
ColumnIs(t, c, data) == \A r \in 1..t.rows : index(t, r, c) = data[r]

\* C21: scenario S1 (md, k = 2) returns one tied-best table, whose two age
\* cells are [25-27], with minimal distortion 2.
C21_S1 ==
  Returned(S1_Table, "md") =>
    /\ best = Rat(2, 1)
    /\ Len(tables) = 1
    /\ ColumnIs(tables[1], 2, <<RangeStr(25, 27), RangeStr(25, 27)>>)

\* C22: scenario S2 (k = 2, the default metric) yields the best result
\* Blue Collar, Blue Collar, White Collar, White Collar with best score 2.
C22_S2 ==
  Returned(S2_Table, "md") =>
    /\ best = Rat(2, 1)
    /\ \E i \in 1..Len(tables) :
         ColumnIs(tables[i], 1, <<Str("Blue Collar"), Str("Blue Collar"),
                                  Str("White Collar"), Str("White Collar")>>)

\* C22, with --metric=c: scenario S2 returns the one table Blue Collar,
\* Blue Collar, White Collar, White Collar with certainty score 2; with the
\* default metric md the best score is 4 and that table is among the tied.
C22_S2MetricC ==
  LET generalised == <<Str("Blue Collar"), Str("Blue Collar"),
                       Str("White Collar"), Str("White Collar")>>
  IN  /\ Returned(S2_Table, "c") =>
           /\ best = Rat(2, 1)
           /\ Len(tables) = 1
           /\ ColumnIs(tables[1], 1, generalised)
      /\ Returned(S2_Table, "md") =>
           /\ best = Rat(4, 1)
           /\ \E i \in 1..Len(tables) : ColumnIs(tables[i], 1, generalised)
C22_Witness == Returned(S2_Table, "c") /\ tables # <<>>

\* C23: scenario S3 (metric c, k = 2, no hierarchy) returns the table of
\* four cells "*", with certainty score 4.
C23_S3 ==
  Returned(S3_Table, "c") =>
    /\ best = Rat(4, 1)
    /\ Len(tables) = 1
    /\ ColumnIs(tables[1], 1, <<Star, Star, Star, Star>>)
C23_Witness == Returned(S3_Table, "c") /\ Len(tables) = 1

(***************************************************************************)
(* shared.h: Tree<T> on its own.  A process uses a Tree<float> (the score  *)
(* cache, in score_cache) or a Tree<std::vector<size_t>> (the match cache, *)
(* in match_cache), and pc names which; res is the last call: the tree,    *)
(* the operation, the row and max it was given, and what it returned or    *)
(* threw.                                                                  *)
(***************************************************************************)
TreeRows == {<<Str("M")>>, <<Str("F")>>, <<Str("M"), Str("M")>>, <<Str("M"), Str("F")>>}
TreeKinds == {"score", "match"}
\* T() and the values of T that are stored
DefaultOf(kind) == IF kind = "score" THEN Zero ELSE NoMatches
ValuesOfKind(kind) ==
  IF kind = "score" THEN {Zero, Rat(1, 1), Rat(2, 1)} ELSE {NoMatches, <<1>>, <<1, 2>>}
TheTree(kind) == IF kind = "score" THEN score_cache ELSE match_cache
SetTree(kind, tree) ==
  /\ score_cache' = IF kind = "score" THEN tree ELSE score_cache
  /\ match_cache' = IF kind = "match" THEN tree ELSE match_cache
\* The part of row that max selects: max == SIZE_MAX ? row.size() - 1 : max
KeyOf(row, max_) == SubSeq(row, 1, (IF max_ = SIZE_MAX THEN Len(row) - 1 ELSE max_) + 1)
TreeArgs == {a \in [row : TreeRows, max : {SIZE_MAX, 0, 1}] :
               a.max = SIZE_MAX \/ a.max < Len(a.row)}
TreeCall(kind, op, a, v, ret, err) ==
  [kind |-> kind, op |-> op, row |-> a.row, max |-> a.max, v |-> v, ret |-> ret,
   err |-> err]

InitTree ==
  /\ \E o \in {Table(<<>>)} : Loaded(o)
  /\ k = 2
  /\ m = "md"
  /\ pc \in TreeKinds
  /\ cache = TRUE

TreeFrame == UNCHANGED <<mgVars, cache, match_trims, prior, gaVars>>

\* Tree::add
CallAdd ==
  /\ \E kind \in TreeKinds \cap {pc}, a \in TreeArgs :
       \E v \in ValuesOfKind(kind) :
         \E added \in {TreeAdd(TheTree(kind), KeyOf(a.row, a.max), v, DefaultOf(kind))} :
           /\ SetTree(kind, added.tree)
           /\ res' = TreeCall(kind, "add", a, v, FALSE, added.err)
  /\ TreeFrame
\* Tree::in
CallIn ==
  /\ \E kind \in TreeKinds \cap {pc}, a \in TreeArgs :
       /\ TheTree(kind).hits + TheTree(kind).misses < MaxProbes
       /\ SetTree(kind, TreeIn(TheTree(kind), KeyOf(a.row, a.max), DefaultOf(kind)))
       /\ res' = TreeCall(kind, "in", a, DefaultOf(kind),
                          NodeIn(TheTree(kind), KeyOf(a.row, a.max), DefaultOf(kind)), "")
  /\ TreeFrame
\* Tree::get
CallGet ==
  /\ \E kind \in TreeKinds \cap {pc}, a \in TreeArgs :
       LET key == KeyOf(a.row, a.max)
           tree == TheTree(kind)
       IN  res' = IF key \in DOMAIN tree.val
                  THEN TreeCall(kind, "get", a, TreeGet(tree, key), FALSE, "")
                  ELSE TreeCall(kind, "get", a, DefaultOf(kind), FALSE, "Value does not exist")
  /\ UNCHANGED <<score_cache, match_cache>>
  /\ TreeFrame

NextTree == CallAdd \/ CallIn \/ CallGet
SpecTree == InitTree /\ [][NextTree]_vars

(***************************************************************************)
(* C24, C25: what a Tree holds.                                            *)
(***************************************************************************)
\* The last call was an add that returned.
Added == pc \in TreeKinds /\ res.op = "add" /\ res.err = ""
LastKey == KeyOf(res.row, res.max)
\* in(row, max) and get(row, max) of the last call, asked of the tree now
ContainsLast == NodeIn(TheTree(res.kind), LastKey, DefaultOf(res.kind))
GetLast == TreeGet(TheTree(res.kind), LastKey)
\* No in() turns true without an add at its key.
AbsentUntilAdded ==
  \A kind \in TreeKinds \cap {pc}, a \in TreeArgs :
    LET key == KeyOf(a.row, a.max)
    IN  (/\ ~NodeIn(TheTree(kind), key, DefaultOf(kind))
         /\ ~(res'.op = "add" /\ res'.err = "" /\ KeyOf(res'.row, res'.max) = key))
          => ~NodeIn(TheTree(kind)', key, DefaultOf(kind))

\* C24: after add(key, v, n) returns, in(key, n) is true and get(key, n) is
\* v, for every v of the value type, T() included; in(key, n) is false
\* until an add at (key, n).
C24_RoundTrip ==
  /\ [](Added => (ContainsLast /\ GetLast = res.v))
  /\ [][AbsentUntilAdded]_vars

\* The same, for the values other than T().
C24_NonDefault ==
  /\ []((Added /\ res.v # DefaultOf(res.kind)) => (ContainsLast /\ GetLast = res.v))
  /\ [][AbsentUntilAdded]_vars

\* C25: an add at a key that holds a value, with a different value, throws
\* "Tree collision!" and changes nothing; no add changes a value that an
\* add has stored.
C25_NeverOverwrites ==
  [][Added =>
       /\ TheTree(res.kind)'.val[LastKey] = res.v
       /\ (/\ res'.op = "add"
           /\ KeyOf(res'.row, res'.max) = LastKey
           /\ res'.v # res.v)
            => (res'.err = "Tree collision!" /\ TheTree(res.kind)' = TheTree(res.kind))]_vars

\* The same, for the stored values other than T().
C25_NonDefault ==
  [][(Added /\ res.v # DefaultOf(res.kind)) =>
       /\ TheTree(res.kind)'.val[LastKey] = res.v
       /\ (/\ res'.op = "add"
           /\ KeyOf(res'.row, res'.max) = LastKey
           /\ res'.v # res.v)
            => (res'.err = "Tree collision!" /\ TheTree(res.kind)' = TheTree(res.kind))]_vars

(***************************************************************************)
(* table.h: Table::get_distinct, the number anonymize prints as "Possible  *)
(* Configurations".                                                        *)
(***************************************************************************)
\* The loop over the cells of every column (lines 416-431).  The product
\* is a size_t; those of the tables of at most MaxCells cells are far
\* below 2^64, where the multiplication is exact.
RECURSIVE DistinctFrom(_, _, _, _)
DistinctFrom(t, c, r, total) ==
  IF c > columns(t) THEN total
  ELSE IF r > t.rows THEN DistinctFrom(t, c + 1, 1, total)
  ELSE DistinctFrom(t, c, r + 1,
                    total * Len(mutations(index(t, r, c), t.cols[c])))
get_distinct(t) ==
  IF columns(t) * t.rows > 64 THEN SIZE_MAX ELSE DistinctFrom(t, 1, 1, 1)

DistinctKinds == {"Gender", "Job", "Age", "Name"}
InitDistinct ==
  /\ \E o \in TablesOf(DistinctKinds, {1}) : Loaded(o)
  /\ k = 2
  /\ m = "md"
  /\ pc = "idle"
  /\ cache = TRUE

\* auto total = working.get_distinct() (mg.h:224, ga.h:331)
CallGetDistinct ==
  /\ pc = "idle"
  /\ res' = [op |-> "get_distinct", total |-> get_distinct(original)]
  /\ pc' = "counted"
  /\ UNCHANGED <<original, working, k, m, max, states, tables, view, best, stack, prune,
                 metricVars, prior, gaVars>>

NextDistinct == CallGetDistinct
SpecDistinct == InitDistinct /\ [][NextDistinct]_vars

(***************************************************************************)
(* C26: the number of configurations.                                      *)
(***************************************************************************)
QuasiCols(t) == {c \in 1..columns(t) : t.cols[c].sensitivity = "quasi"}
\* The product of the sizes of the mutation sets of the quasi cells, in
\* unbounded arithmetic
RECURSIVE QuasiProduct(_, _, _)
QuasiProduct(t, c, r) ==
  IF c > columns(t) THEN 1
  ELSE IF r > t.rows \/ c \notin QuasiCols(t) THEN QuasiProduct(t, c + 1, 1)
  ELSE Cardinality(Range_(mutations(index(t, r, c), t.cols[c]))) * QuasiProduct(t, c, r + 1)

\* C26: get_distinct returns the product over the cells of the quasi
\* columns of the sizes of their mutation sets, and SIZE_MAX exactly when
\* there are more than 64 quasi cells; the other columns do not count.
C26_QuasiProduct ==
  res.op = "get_distinct" =>
    res.total = IF Cardinality(QuasiCols(original)) * original.rows > 64 THEN SIZE_MAX
                ELSE QuasiProduct(original, 1, 1)

\* The same, for the tables whose columns are all quasi.
C26_AllQuasi ==
  QuasiCols(original) = 1..columns(original) => C26_QuasiProduct

(***************************************************************************)
(* The scores of the working tables under the weights of --weights, which  *)
(* takes any number (main.cpp:31, table.h:342).                            *)
(***************************************************************************)
WKinds == {"Gender", "Job"}
WWeights == {-1, 1}
InitWeights ==
  /\ \E o \in TablesOf(WKinds, WWeights) : Loaded(o)
  /\ k = 2
  /\ m \in {"md", "c"}
  /\ pc = "idle"
  /\ cache = TRUE

\* The score of the working table, as score_results and the pruning test
\* compute it (mg.h:119, 179)
CallScore ==
  /\ pc = "idle"
  /\ \E r \in {Score(m, working, original, G)} :
       /\ res' = [op |-> "score", v |-> r.v, err |-> r.err]
       /\ SetG(r.g)
  /\ pc' = "returned"
  /\ UNCHANGED <<original, working, k, m, max, states, tables, view, best, stack, prune,
                 prior>>
  /\ UNCHANGED gaVars

NextWeights == Generalise \/ CallScore
SpecWeights == InitWeights /\ [][NextWeights]_vars

(***************************************************************************)
(* C27, C30: the sign and the growth of a score.                           *)
(***************************************************************************)
NonNegativeWeights(t) == \A c \in 1..columns(t) : t.cols[c].weight >= 0

\* C27: for every working table and all weights the interface accepts,
\* minimal_distortion and certainty_score are >= 0.
C27_NonNegative == (res.op = "score" /\ res.err = "") => RLeq(Zero, res.v)

\* The same, for the weights that are not negative.
C27_NonNegativeWeights == NonNegativeWeights(original) => C27_NonNegative

\* The score of table t, without the caches
PureScore(t) == Score(m, t, original, Globals(FALSE)).v
\* The step replaces a cell that held its original value.
ReplacesOriginal ==
  /\ working' # working
  /\ \A r \in 1..original.rows, c \in 1..columns(original) :
       index(working', r, c) # index(working, r, c)
         => index(working, r, c) = index(original, r, c)

\* C30: for both metrics and all weights the interface accepts, replacing
\* a further original cell of a working table by one of its mutations
\* never decreases the score of the table.
C30_ScoreGrows ==
  [][ReplacesOriginal => RLeq(PureScore(working), PureScore(working'))]_vars

\* The same, for the weights that are not negative.
C30_NonNegativeWeights ==
  [][(ReplacesOriginal /\ NonNegativeWeights(original))
       => RLeq(PureScore(working), PureScore(working'))]_vars

(***************************************************************************)
(* C28: the tied-best set of MinGen.                                       *)
(***************************************************************************)
Searching_ == pc \in {"started", "worker"} /\ pc' \in {"worker", "stats"}
\* The step called score_results: its pruning test passed on the last quasi
\* column (prune holds the table and the best of before), or the table has
\* no quasi column and the worker scores it at once.
ScoresTested ==
  /\ prune' # prune
  /\ prune'.advanced
  /\ \A c \in (prune'.col + 1)..columns(original) : original.cols[c].sensitivity # "quasi"
ScoresAtOnce == pc = "started" /\ ~HasQuasi(original) /\ max # 0
\* What score_results is to do with table t.
TiedBest(t) ==
  \E s \in {Score(m, t, original, Globals(FALSE)).v} :
    IF best = INFINITY \/ RLess(s, best) THEN best' = s /\ tables' = <<t>>
    ELSE IF s = best THEN best' = best /\ tables' = Append(tables, t)
    ELSE best' = best /\ tables' = tables

\* C28: in every state of the search all tables of the tied-best set have
\* the score best, and best is infinity iff no table has been scored; best
\* is the least score of the tables scored so far: a strictly better score
\* empties the set before the table is inserted, an equal score adds the
\* table, any other step leaves both.
C28_TiedBest ==
  /\ [](pc \in {"worker", "stats"} =>
          /\ \A i \in DOMAIN tables : Score(m, tables[i], original, Globals(FALSE)).v = best
          /\ (best = INFINITY <=> tables = <<>>))
  /\ [][Searching_ =>
          IF ScoresTested THEN TiedBest(prune'.w)
          ELSE IF ScoresAtOnce THEN TiedBest(original)
          ELSE best' = best /\ tables' = tables]_vars
C28_Witness == pc = "worker" /\ Len(tables) >= 2 /\ states >= 4

(***************************************************************************)
(* C29: the premise of the pruning on k-anonymity.                         *)
(***************************************************************************)
\* k_anonymity(w, original, kk, c), without the caches
KAnon(w, kk, c) == k_anonymity(w, original, kk, c, Globals(FALSE)).v
\* The tables that agree with w on columns 1..c and hold, in every cell of
\* a later column, one of the choices of the cell: the cells from (r, x) on
\* of the tables of T are replaced.
RECURSIVE CompleteFrom(_, _, _)
CompleteFrom(T, r, x) ==
  IF x > columns(original) THEN T
  ELSE IF r > original.rows THEN CompleteFrom(T, 1, x + 1)
  ELSE CompleteFrom({SetCell(t, r, x, v) : t \in T, v \in CellChoices(original, r, x)},
                    r + 1, x)
Completions(w, c) == CompleteFrom({w}, 1, c + 1)

\* C29: for all W, O, k and c1 <= c2, k_anonymity(W, O, k, c2) implies
\* k_anonymity(W, O, k, c1); and when the verifier fails on the columns up
\* to c it fails on the whole table for every choice of mutations in the
\* columns after c.
C29_PrefixMonotone ==
  res.op = "k_anonymity" =>
    /\ res.v => \A c1 \in 1..res.c : KAnon(working, res.k, c1)
    /\ (res.err = "" /\ ~res.v) =>
         \A t \in Completions(working, res.c) : ~KAnon(t, res.k, columns(original))
C29_Witness ==
  /\ res.op = "k_anonymity"
  /\ columns(original) = 2
  /\ res.c = 1
  /\ ~res.v
  /\ working # original

(***************************************************************************)
(* C31: the order of the two operands of the pruning test.                 *)
(***************************************************************************)
\* A step of the worker that made the pruning test of line 179 on the table
\* prune'.w, and the score of that table is above the best of before.
ScoreTestFails ==
  /\ Searching_
  /\ prune' # prune
  /\ ~RLeq(Score(m, prune'.w, original, Globals(FALSE)).v, prune'.best)
\* k_anonymity was not evaluated: the tree of the matches, its counters of
\* hits and misses and the counter of trims are what they were.
MatchUntouched == match_cache' = match_cache /\ match_trims' = match_trims

\* C31: in the pruning test the score test comes before the k-anonymity
\* test, and when the score is above best k_anonymity is not evaluated: the
\* match cache, its hit and miss counters and the trim counter are unchanged
\* by the step.
C31_ScoreFirst == [][ScoreTestFails => MatchUntouched]_vars
\* C31 under the metric md, where the left operand of && is the comparison
\* of the score with best.
C31_ScoreFirstMD == [][(m = "md" /\ ScoreTestFails) => MatchUntouched]_vars
\* A pruning test whose table scores above best and that did not advance.
C31_Witness ==
  /\ pc \in {"worker", "stats"}
  /\ prune.valid
  /\ ~prune.advanced
  /\ m = "md"
  /\ ~RLeq(Score(m, prune.w, original, Globals(FALSE)).v, prune.best)

(***************************************************************************)
(* C32: backtracking.                                                      *)
(***************************************************************************)
\* The frames of the calls that are waiting for a call they made: all but
\* the top one.  Their cell holds the mutation of their iteration.
Waiting == 1..(Len(stack) - 1)
\* working between two iterations: every call on the stack found the
\* original value in its cell, the cell of a waiting call holds the mutation
\* the call is trying, and every other cell holds its original value.
InFlight ==
  /\ \A j \in DOMAIN stack : stack[j].copy = index(original, stack[j].row, stack[j].col)
  /\ \A c \in 1..columns(original) : \A r \in 1..original.rows :
       index(working, r, c) =
         IF \E j \in Waiting : stack[j].row = r /\ stack[j].col = c
         THEN LET f == stack[CHOOSE j \in Waiting : stack[j].row = r /\ stack[j].col = c]
              IN  f.muts[f.i]
         ELSE index(original, r, c)

\* C32: every call anonymize_worker(row, col) returns with working as it
\* was when the call was entered, each mutation being undone before the
\* next is tried, also when the limit of states is hit; when the top call
\* has returned working equals original; original is never modified.
C32_Restores ==
  [][/\ original' = original
     /\ pc' = "worker" => InFlight'
     /\ pc' = "stats" => working' = original']_vars
\* The worker has returned from a search that changed cells, tested a
\* table and then hit the limit of states.
C32_Witness ==
  /\ pc = "stats"
  /\ max # SIZE_MAX
  /\ states >= max
  /\ prune.valid
  /\ prune.w # original
  /\ working = original
\* The same for a search without limit that went two columns deep.
C32_WitnessDeep ==
  /\ pc = "stats"
  /\ max = SIZE_MAX
  /\ prune.valid
  /\ prune.col = 2
  /\ working = original

(***************************************************************************)
(* C33: the best of a generation are in the next.                          *)
(***************************************************************************)
\* How many of the instances gen[1..n] are inst
Copies(gen, n, inst) == Cardinality({i \in 1..n : gen[i] = inst})
\* The first cutoff instances of the generation
Elite(a) == IF Len(a.generation) < a.cutoff THEN Len(a.generation) ELSE a.cutoff
\* The step of line 279
Replaces == ga.pc = "x" /\ ga'.pc = "loop"

\* C33: in every generation step each of the first cutoff individuals of
\* the generation is in the next generation with the same table and the
\* same score, as many times as it is among them, whatever roll and
\* mutations draw and whatever the mutation rate is.
C33_Elitism ==
  [][Replaces =>
       \A i \in 1..Elite(ga) :
         Copies(ga'.generation, Len(ga'.generation), ga.generation[i])
           >= Copies(ga.generation, Elite(ga), ga.generation[i])]_vars
\* A generation with offspring has been replaced after the mutation rate
\* was raised; the best of the old one were not all the same table.
C33_Witness ==
  /\ ga.pc = "loop"
  /\ ga.iter >= 2
  /\ ga.offspring > 0
  /\ ga.m_rate > 10
  /\ \E i, j \in 1..ga.cutoff : ga.generation[i].table # ga.generation[j].table

(***************************************************************************)
(* C34, C37: Table::random and GeneticAlgorithm::combine applied to the    *)
(* individuals of a generation.  tables is the generation, working is the  *)
(* table of the local current of anonymize_worker, res holds the parent    *)
(* current was copied from, the partner of the last offspring and the      *)
(* number of offspring made from current.                                  *)
(***************************************************************************)
\* Table::random (table.h:448-458) from cell (r, c) on: every cell of a
\* quasi column becomes the head of the shuffled mutations of the cell.
RECURSIVE RandomFrom(_, _, _, _)
RandomFrom(self, T, r, c) ==
  IF c > columns(self) THEN T
  ELSE IF self.cols[c].sensitivity # "quasi" \/ r > self.rows
  THEN RandomFrom(self, T, 1, c + 1)
  ELSE RandomFrom(self, UNION {{SetCell(copy, r, c, v) :
                                  v \in Range_(mutations(index(copy, r, c), copy.cols[c]))} :
                               copy \in T},
                  r + 1, c)
random(self) == RandomFrom(self, {self}, 1, 1)

BreedKinds == {"Gender", "Job", "Age", "Name"}
BreedTables ==
  TablesOfShape(BreedKinds, {1}, 2, 1) \cup TablesOfShape(BreedKinds, {1}, 1, 2)
\* The offspring of one parent
MaxOffspring == 2
\* The individuals of the generation
MaxIndividuals == 2

InitBreed ==
  /\ \E o \in BreedTables : LoadedTable(o) /\ ga = NewGA(o)
  /\ poll = NoPoll
  /\ k = 2
  /\ m = "md"
  /\ cache = FALSE
  /\ pc = "breed"

BreedFrame == UNCHANGED <<original, k, m, max, states, view, best, stack, pc, prune,
                          metricVars, prior, gaVars>>

\* auto i = original.random(); generation.emplace(...) (ga.h:323-325)
CallRandom ==
  /\ pc = "breed"
  /\ Len(tables) < MaxIndividuals
  /\ \E i \in random(original) : tables' = Append(tables, i)
  /\ res' = [op |-> "random"]
  /\ UNCHANGED working
  /\ BreedFrame

\* auto current = *std::next(generation.begin(), x) (ga.h:258)
CopyCurrent ==
  /\ pc = "breed"
  /\ \E x \in DOMAIN tables :
       /\ working' = tables[x]
       /\ res' = [op |-> "current", e |-> tables[x], y |-> 0]
  /\ UNCHANGED tables
  /\ BreedFrame

\* One offspring (ga.h:265-275): combine(current.table, partner.table)
CallCombine ==
  /\ pc = "breed"
  /\ res.op \in {"current", "combine"}
  /\ res.y < MaxOffspring
  /\ \E x \in DOMAIN tables :
       \E child \in combine(ga, working, tables[x]) :
         /\ working' = child
         /\ res' = [op |-> "combine", e |-> res.e, second |-> tables[x], y |-> res.y + 1]
  /\ UNCHANGED tables
  /\ BreedFrame

NextBreed == CallRandom \/ CopyCurrent \/ CallCombine
SpecBreed == InitBreed /\ [][NextBreed]_vars

\* Table t is original with every cell of a quasi column replaced by one
\* of the mutations of the original cell.
ValidCell(t, r, c) ==
  IF original.cols[c].sensitivity = "quasi"
  THEN index(t, r, c) \in Range_(mutations(index(original, r, c), original.cols[c]))
  ELSE index(t, r, c) = index(original, r, c)
ValidIndividual(t) ==
  /\ t.rows = original.rows
  /\ columns(t) = columns(original)
  /\ \A c \in 1..columns(original) : \A r \in 1..original.rows : ValidCell(t, r, c)
  /\ [c \in 1..columns(t) |-> [t.cols[c] EXCEPT !.data = original.cols[c].data]] = original.cols

C37_Valid ==
  /\ [](pc = "breed" =>
          /\ \A x \in DOMAIN tables : ValidIndividual(tables[x])
          /\ res.op \in {"current", "combine"} => ValidIndividual(working))
  /\ [][(pc = "breed" /\ res'.op = "combine") =>
          /\ tables' = tables
          /\ res'.second \in Range_(tables')]_vars
\* A child made from a parent and a different partner, in a table with a
\* column that is not quasi.
C37_Witness ==
  /\ pc = "breed"
  /\ res.op = "combine"
  /\ res.e # res.second
  /\ working # res.e
  /\ working # res.second
  /\ \E c \in 1..columns(original) : original.cols[c].sensitivity # "quasi"

(***************************************************************************)
(* C35: a table that is k-anonymous as it is.                              *)
(***************************************************************************)
\* anonymize has returned at line 219: the test of line 217 held.
AlreadyAnonymous == pc = "already"

\* C35: when the original table satisfies k-anonymity for the k asked for,
\* the result of anonymize, the tables it hands to print_stats, is the
\* original table, not modified, and no mutation has been explored.
C35_ReturnsOriginal ==
  AlreadyAnonymous => (tables = <<original>> /\ working = original /\ states = 0)
\* What holds instead: no mutation has been explored and working is the
\* original, but the set of results is empty and best is infinity.
C35_NoResult ==
  AlreadyAnonymous =>
    (tables = <<>> /\ best = INFINITY /\ working = original /\ states = 0)
C35_Witness == AlreadyAnonymous /\ k = 2 /\ original.rows >= 2

(***************************************************************************)
(* C36: Range::update applied to the ranges a program can hold.            *)
(***************************************************************************)
\* The bounds of the ranges are 0..MaxBound.
MaxBound == 4
\* Range(m, M) for all m and M
Ranges == {RangeOf(lo_, hi_) : lo_, hi_ \in 0..MaxBound}

\* res holds the range a that update is called on, what it was before the
\* last call (old) and the argument of the call (b).
InitRange ==
  /\ Loaded(Table(<<>>))
  /\ k = 2
  /\ m = "md"
  /\ cache = FALSE
  /\ pc = "range"

\* Range a(m, M)
Construct_a ==
  /\ pc = "range"
  /\ res.op = "none"
  /\ \E a \in Ranges : res' = [op |-> "Range", a |-> a, old |-> a, b |-> a]
  /\ UNCHANGED <<mgVars, metricVars, prior, gaVars>>
\* a.update(b)
CallUpdate ==
  /\ pc = "range"
  /\ res.op \in {"Range", "update"}
  /\ \E b \in Ranges : res' = [op |-> "update", a |-> RangeUpdate(res.a, b), old |-> res.a, b |-> b]
  /\ UNCHANGED <<mgVars, metricVars, prior, gaVars>>
NextRange == Construct_a \/ CallUpdate
SpecRange == InitRange /\ [][NextRange]_vars

\* C36: for all ranges a and b, also for an a with min = max, after
\* a.update(b) the range a contains b and contains what it was before,
\* its min is not above its max, and its string is "[min-max]" of the new
\* bounds.
C36_Expand ==
  res.op = "update" =>
    /\ RangeInRange(res.a, res.b)
    /\ RangeInRange(res.a, res.old)
    /\ res.a.min <= res.a.max
    /\ res.a.out = RangeStr(res.a.min, res.a.max)
\* The same for an a with min < max.
C36_ExpandProper == res.op = "update" /\ res.old.min < res.old.max => C36_Expand
\* What update does to an a with min = max: a becomes b, unless b lies
\* below a, and then a keeps its max.
C36_Degenerate ==
  res.op = "update" /\ res.old.min = res.old.max =>
    /\ res.a.min = res.b.min
    /\ res.a.max = IF res.b.max > res.old.max \/ res.b.min = res.old.max
                   THEN res.b.max ELSE res.old.max
    /\ res.a.out = RangeStr(res.a.min, res.a.max)

(***************************************************************************)
(* C38: certainty_score on the tables the searches make: columns of every  *)
(* kind, three rows in one column or one row in two columns.               *)
(***************************************************************************)
InvalidRows == 3
InvalidTables ==
  TablesOfShape(Kinds, {1}, InvalidRows, 1) \cup TablesOfShape(Kinds, {1}, 1, 2)
InitInvalid ==
  /\ \E o \in InvalidTables : Loaded(o)
  /\ k = 2
  /\ m = "c"
  /\ pc = "idle"
  /\ cache \in BOOLEAN
NextInvalid == Generalise \/ CallScore
SpecInvalid == InitInvalid /\ [][NextInvalid]_vars

\* The cell is unchanged, suppressed, a name of the hierarchy of its column
\* or a range of an integer column.
Classified(w, r, c) ==
  LET mod == index(w, r, c)
      column == w.cols[c]
  IN  \/ mod = index(original, r, c)
      \/ mod = Star
      \/ ~DomainEmpty(column.graph) /\ DomainFind(column.graph, mod) # <<>>
      \/ column.t = "integer" /\ IsBracket(mod)

\* C38: certainty_score does not fail with "Invalid modification!" on a
\* table a search produces: every changed cell of such a table, in a string
\* or integer column with or without hierarchy, is a suppression, a
\* generalisation in the hierarchy or a range.
C38_NeverInvalid ==
  /\ \A c \in 1..columns(original) : \A r \in 1..original.rows : Classified(working, r, c)
  /\ (res.op = "score" /\ m = "c") => res.err = ""
\* A score of a table that holds a range in an integer column with a
\* hierarchy next to a suppressed cell.
C38_Witness ==
  /\ res.op = "score"
  /\ res.err = ""
  /\ \E c \in 1..columns(original) :
       /\ original.cols[c].t = "integer"
       /\ ~DomainEmpty(original.cols[c].graph)
       /\ \E r \in 1..original.rows : IsBracket(index(working, r, c))
       /\ \E r \in 1..original.rows : index(working, r, c) = Star
\* The same with a name of the hierarchy of a string column.
C38_WitnessName ==
  /\ res.op = "score"
  /\ res.err = ""
  /\ \E c \in 1..columns(original) : \E r \in 1..original.rows :
       /\ original.cols[c].t = "string"
       /\ index(working, r, c) \notin {Star, index(original, r, c)}

(***************************************************************************)
(* C39: what the thread of anonymize reads while the worker runs.          *)
(***************************************************************************)
\* The worker has been launched and has not returned.
WorkerActive == ga.pc \in {"worker", "loop", "x", "y"}
\* A step of the thread of anonymize
CallerSteps == poll' # poll /\ poll.pc \in {"read", "publish", "sample", "poll"}
\* The steps that are one call of update_view or get_view, which hold the
\* lock (ga.h:136-145)
UnderLock == poll.pc \in {"publish", "sample"}

\* C39: between the start of the worker and its completion the thread of
\* anonymize touches the state of the searcher only through update_view
\* and get_view, under the lock: generation is read and written by the
\* worker alone and no shared variable is read without the lock while the
\* worker may write it.
C39_OnlySnapshot == [][(CallerSteps /\ WorkerActive) => UnderLock]_vars

\* What holds instead: the thread of anonymize never writes generation,
\* and with --single-thread it takes no step while the worker runs.
C39_CallerNeverWrites ==
  [][/\ CallerSteps => ga'.generation = ga.generation
     /\ (poll.single_thread /\ WorkerActive) => poll' = poll]_vars
\* The thread of anonymize has read the head of generation while the
\* worker was replacing generations.
C39_Witness ==
  /\ poll.pc = "publish"
  /\ ga.pc \in {"x", "y"}
  /\ ga.iter >= 1

(***************************************************************************)
(* C40: Table::RowIterator.  res is the iterator: row is the member row,   *)
(* counted from 0 as in the code, view the member view, from the row the   *)
(* last call found, reads the indices data[] was read at by the last call  *)
(* and err what the call threw.                                            *)
(***************************************************************************)
\* What data[row] yields for row >= data.size(): the read is undefined, it
\* gives some bytes that are not a cell of the table, or the process stops.
NotACell == [tag |-> "?", s |-> "", lo |-> 0, hi |-> 0]
\* construct_view (line 223) at row: the outcomes of the iterator it.
construct_view(it, t, row) ==
  IF row < t.rows
  THEN {[it EXCEPT !.row = row, !.reads = {row}, !.err = "",
                   !.view = [x \in 1..columns(t) |-> index(t, row + 1, x)]]}
  ELSE IF columns(t) = 0 THEN {[it EXCEPT !.row = row, !.reads = {}, !.err = ""]}
  ELSE {[it EXCEPT !.row = row, !.reads = {row}, !.err = "",
                   !.view = [x \in 1..columns(t) |-> NotACell]],
        [it EXCEPT !.row = row, !.reads = {row}, !.err = "segmentation fault"]}
\* RowIterator(in, r) (lines 231-238)
RowIterator(t, r) ==
  LET it == [op |-> "RowIterator", from |-> r, row |-> r, reads |-> {}, err |-> "",
             view |-> [x \in 1..columns(t) |-> EmptyStr]]
  IN  IF r # t.rows THEN construct_view(it, t, r) ELSE {it}
row_begin(t) == RowIterator(t, 0)
row_end(t) == RowIterator(t, t.rows)
\* RowIterator::inc (lines 245-250)
inc(it, t) ==
  IF it.row = t.rows
  THEN {[it EXCEPT !.op = "inc", !.from = it.row, !.reads = {}, !.err = "out_of_range"]}
  ELSE construct_view([it EXCEPT !.op = "inc", !.from = it.row], t, it.row + 1)

RowKinds == {"Gender", "Name"}
RowTables ==
  UNION {TablesOfShape(RowKinds, {1}, q[1], q[2]) : q \in (0..3) \X (1..2)}
InitRows ==
  /\ \E o \in RowTables : Loaded(o)
  /\ k = 2
  /\ m = "md"
  /\ cache = FALSE
  /\ pc = "rows"

\* auto iter = w.row_begin()
CallRowBegin ==
  /\ pc = "rows"
  /\ res.op = "none"
  /\ res' \in row_begin(working)
  /\ UNCHANGED <<mgVars, metricVars, prior, gaVars>>
\* ++iter; after out_of_range the iterator can be used again.
CallInc ==
  /\ pc = "rows"
  /\ res.op \in {"RowIterator", "inc"}
  /\ res.err \in {"", "out_of_range"}
  /\ res' \in inc(res, working)
  /\ UNCHANGED <<mgVars, metricVars, prior, gaVars>>
NextRows == CallRowBegin \/ CallInc
SpecRows == InitRows /\ [][NextRows]_vars

\* The iterator is at the end position.
AtEnd(it) == it.row = working.rows

\* C40: iterating a table from row_begin() to row_end() reads no cell at a
\* row index >= rows, in particular the increment from the last row to the
\* end position reads no cell, and advancing an iterator that is at the end
\* fails with out_of_range and leaves its position.
C40_RowBounds ==
  res.op \in {"RowIterator", "inc"} =>
    /\ \A row \in res.reads : row < working.rows
    /\ (res.op = "inc" /\ res.from = working.rows) =>
         (res.err = "out_of_range" /\ res.row = res.from)
\* What holds instead: only the increment from the last row to the end
\* position reads outside the table, at the index rows; advancing at the
\* end fails and leaves the position.
C40_OnlyLastIncrement ==
  res.op \in {"RowIterator", "inc"} =>
    /\ \A row \in res.reads :
         row < working.rows \/ (res.op = "inc" /\ res.from = working.rows - 1 /\ row = working.rows)
    /\ (res.op = "inc" /\ res.from = working.rows) =>
         (res.err = "out_of_range" /\ res.row = res.from /\ res.reads = {})
    /\ res.row <= working.rows
C40_Witness == res.op = "inc" /\ res.err = "out_of_range" /\ working.rows = 3

=============================================================================
